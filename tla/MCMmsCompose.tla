----------------------------- MODULE MCMmsCompose -----------------------------
(***************************************************************************)
(* MmsCompose for TLC: two files of one name in different directories, and *)
(* a name that no file has, only a received part.                          *)
(***************************************************************************)
EXTENDS MmsCompose

MCFileName == ("a/x" :> "x") @@ ("b/x" :> "x")
  @@ [n \in {"x", "z", "t1", "c0", "c1", ""} |-> n]

None    == [kind |-> "none", id |-> ""]
File(n) == [kind |-> "file", id |-> n]
Cid(c)  == [kind |-> "cid", id |-> c]

Part(n, k, c) == [name |-> n, keys |-> k, cid |-> c, path |-> n]

(* Pars that show a part by name and by cid, a cid no part has, and a part  *)
(* that is an attachment.                                                   *)
Forwarded ==
  [parts |-> <<Part("x", {"x", "<c1>"}, "c1"), Part("z", {"z", "<c2>"}, "c2")>>,
   pars  |-> <<[text |-> None, image |-> File("x"), audio |-> Cid("c0")],
               [text |-> None, image |-> Cid("c1"), audio |-> None]>>]

MCGenerated == <<"t1">>

(* Parts without a Content-ID, shown by their names.                        *)
Plain ==
  [parts |-> <<Part("x", {"x"}, ""), Part("z", {"z", "<c2>"}, "c2")>>,
   pars  |-> <<[text |-> None, image |-> File("z"), audio |-> None]>>]

MCDocuments == {Forwarded, Plain}

ASSUME MCOrdinary == \A doc \in MCDocuments : Ordinary(doc)

Nameless ==
  [parts |-> <<Part("", {}, "")>>, pars |-> <<>>]

MCNameless == {Nameless}

=============================================================================
