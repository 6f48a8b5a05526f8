---------------------------- MODULE HeaderFields -----------------------------
(***************************************************************************)
(* What MmsHeader promises its callers: a name shows the content it was    *)
(* set to last, whatever happens to other names and however often the      *)
(* header is packed.  A name that came more than once in a received header *)
(* is beyond the promise: what it shows is Unknown and so is what it shows *)
(* after a call about it.                                                  *)
(***************************************************************************)
CONSTANTS Names, Contents, Absent, Unknown

VARIABLES fields, asked

vars == <<fields, asked>>

Fields == [Names -> Contents \cup {Absent, Unknown}]

Init == fields = [n \in Names |-> Absent] /\ asked.call = "create"

Becomes(n, c) ==
  \/ fields[n] # Unknown /\ fields' = [fields EXCEPT ![n] = c]
  \/ /\ fields[n] = Unknown
     /\ \E d \in Contents \cup {Absent, Unknown} : fields' = [fields EXCEPT ![n] = d]

Set ==
  /\ asked'.call = "set"
  /\ \E n \in Names, c \in Contents :
       asked'.name = n /\ asked'.content = c /\ Becomes(n, c)

Erase == asked'.call = "erase" /\ \E n \in Names : asked'.name = n /\ Becomes(n, Absent)

Clear == asked'.call = "clear" /\ fields' = [n \in Names |-> Absent]

Pack == asked'.call = "pack" /\ UNCHANGED fields

(* A new message is composed, or one is read.                              *)
Replace == asked'.call \in {"compose", "unpack"} /\ fields' \in Fields

Next == Set \/ Erase \/ Clear \/ Pack \/ Replace

Spec == Init /\ [][Next]_vars
=============================================================================
