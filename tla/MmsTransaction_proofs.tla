------------------------ MODULE MmsTransaction_proofs -------------------------
(***************************************************************************)
(* Theorems about HttpTransaction, for every length of requests, responses  *)
(* and chunks, every set of heads, any number of calls and of failing       *)
(* sends: its types, that the read loop puts each chunk once, whose answer a *)
(* call reports, that a request goes out without a gap, that counting ends  *)
(* a response where it ends, and what its content is.  Then about           *)
(* MmsTransaction over it: that its steps are steps of HttpTransaction,     *)
(* what it hands out, and how long that keeps.                             *)
(***************************************************************************)
EXTENDS MmsTransaction, SequenceFacts

(* TypeOK in parts.                                                        *)
CallTyped ==
  /\ pc \in PCs /\ kind \in {"request", "file"}
  /\ req \in 0 .. MaxRequests
  /\ sent \in -1 .. ReqLen

TextsTyped ==
  /\ resp \in Seq(Units) /\ residue \in Seq(Units) /\ chunk \in Seq(Units)
  /\ got \in Seq(Units) /\ down \in Seq(Units) /\ emitting \in Seq(Units)

RespTyped ==
  /\ unpacked \in Nat /\ content \in Nat /\ code \in 0 .. MaxRequests
  /\ header \in [length: Nat \cup {NoLength}, type: 0 .. MaxRequests]
  /\ result \in {"none", "OK", "FAIL", "undefined"}

PeerTyped ==
  /\ up \in Seq((1 .. MaxRequests) \X (1 .. ReqLen))
  /\ closed \in BOOLEAN
  /\ answered \in 0 .. MaxRequests

HistoryTyped ==
  /\ clean \in BOOLEAN
  /\ ended \in {"no", "complete", "closed", "timeout"}
  /\ errors \in [all: 0 .. MaxSendErrors, call: 0 .. MaxSendErrors]
  /\ errors.call <= errors.all

(* A call has a number; only NextCall gives it.                             *)
Numbered == pc \notin {"none", "idle"} => req # 0

IInv == CallTyped /\ TextsTyped /\ RespTyped /\ PeerTyped /\ HistoryTyped /\ Numbered

-----------------------------------------------------------------------------
LEMMA EmptyIsSeq ==
  ASSUME NEW S
  PROVE  <<>> \in Seq(S)
OBVIOUS

LEMMA UnitIs ==
  ASSUME NEW u \in Units
  PROVE  /\ u.req \in 1 .. MaxRequests /\ u.at \in Nat \ {0} /\ u.n \in Nat /\ u.head \in Heads
         /\ HeadLen(u.head) \in {2, 3} /\ Size(u) \in Nat
         /\ u.head \in HeadForms
BY HttpAssumption DEF Units, HeadLen, Size

(* A response: its units in order.                                          *)
LEMMA ResponseIs ==
  ASSUME NEW r \in 1 .. MaxRequests, NEW n \in BodyLengths, NEW h \in Heads
  PROVE  LET R == Response(r, n, h)
         IN  /\ R \in Seq(Units) /\ Len(R) = HeadLen(h) + n /\ Len(R) \in Nat /\ Len(R) >= 2
             /\ \A i \in 1 .. Len(R) : R[i] = [req |-> r, at |-> i, n |-> n, head |-> h]
<1>1. n \in Nat /\ HeadLen(h) \in {2, 3}
  BY HttpAssumption DEF HeadLen
<1> DEFINE m == HeadLen(h) + n
           u(i) == [req |-> r, at |-> i, n |-> n, head |-> h]
<1>2. m \in Nat /\ m >= 2
  BY <1>1
<1>3. Response(r, n, h) = [i \in 1 .. m |-> u(i)]
  BY DEF Response, Unit
<1>4. \A i \in 1 .. m : u(i) \in Units
  BY <1>1 DEF Units
<1>. HIDE DEF m, u
<1>5. [i \in 1 .. m |-> u(i)] \in Seq(Units) /\ Len([i \in 1 .. m |-> u(i)]) = m
  BY <1>2, <1>4
<1>. QED BY <1>2, <1>3, <1>5 DEF m, u

LEMMA TextIsUnits ==
  ASSUME TextsTyped
  PROVE  Text \in Seq(Units)
BY DEF TextsTyped, Text

-----------------------------------------------------------------------------
(* What strstr and sscanf find.                                            *)

LEMMA FirstIs ==
  ASSUME NEW T, T \subseteq Nat
  PROVE  /\ FirstOf[T] \in Nat
         /\ T = {} => FirstOf[T] = 0
         /\ T # {} => FirstOf[T] \in T /\ \A j \in T : FirstOf[T] <= j
<1>1. FirstOf[T] = IF T = {} THEN 0 ELSE CHOOSE i \in T : \A j \in T : i <= j
  BY DEF FirstOf
<1>2. CASE T # {}
  <2>1. \E i \in T : \A j \in T : i <= j
    BY <1>2, LeastOf
  <2>. QED BY <1>1, <1>2, <2>1
<1>. QED BY <1>1, <1>2

(* The units seen are those before the first that hides.                    *)
LEMMA VisibleIs ==
  ASSUME NEW text \in Seq(Units)
  PROVE  /\ Visible(text) \in Seq(Units) /\ Len(Visible(text)) \in 0 .. Len(text)
         /\ \A i \in 1 .. Len(Visible(text)) : Visible(text)[i] = text[i]
         /\ \A i \in 1 .. Len(text) :
              (\A j \in 1 .. i : j # unpacked /\ ~ IsBody(text[j])) => i <= Len(Visible(text))
<1> DEFINE N == {i \in DOMAIN text : i = unpacked \/ (IsBody(text[i]) /\ BodyHasNul)}
           k == FirstOf[N]
<1>1. Len(text) \in Nat /\ DOMAIN text = 1 .. Len(text)
  OBVIOUS
<1>2. N \subseteq Nat /\ \A i \in N : i \in 1 .. Len(text) /\ (i = unpacked \/ IsBody(text[i]))
  BY <1>1
<1>3. Visible(text) = IF k = 0 THEN text ELSE SubSeq(text, 1, k - 1)
  BY DEF Visible
<1>4. k \in Nat /\ (k # 0 => k \in N)
  BY <1>2, FirstIs
<1>. HIDE DEF k, N
<1>5. CASE k = 0
  BY <1>1, <1>3, <1>5
<1>6. CASE k # 0
  <2>1. k \in 1 .. Len(text) /\ (k = unpacked \/ IsBody(text[k]))
    BY <1>2, <1>4, <1>6
  <2>2. /\ Visible(text) \in Seq(Units) /\ Len(Visible(text)) = k - 1
        /\ \A i \in 1 .. k - 1 : Visible(text)[i] = text[i]
    BY <1>1, <1>3, <1>6, <2>1
  <2>3. ASSUME NEW i \in 1 .. Len(text), \A j \in 1 .. i : j # unpacked /\ ~ IsBody(text[j])
        PROVE  i <= k - 1
    <3>1. k \notin 1 .. i
      BY <2>1, <2>3
    <3>. QED BY <1>1, <2>1, <3>1
  <2>. QED BY <1>1, <2>1, <2>2, <2>3
<1>. QED BY <1>5, <1>6

(* All lines of a text end alike.                                           *)
Alike(text) == \A i \in DOMAIN text : text[i].head.eol = text[1].head.eol

(* A blank line that strstr finds is one, after a line; in a text whose      *)
(* lines end alike it is the first.                                        *)
LEMMA HeadEndIs ==
  ASSUME NEW text \in Seq(Units), NEW from \in Nat \ {0}
  PROVE  LET e == HeadEnd(text, from)
         IN  /\ e \in Nat
             /\ e # 0 => /\ e \in from .. Len(Visible(text)) - 1 /\ e + 1 \in 1 .. Len(text)
                         /\ e \in 1 .. Len(text) /\ EndsLine(text[e]) /\ IsBlank(text[e + 1])
             /\ Alike(text) =>
                  \A i \in from .. Len(Visible(text)) - 1 :
                    EndsLine(text[i]) /\ IsBlank(text[i + 1]) => e # 0 /\ e <= i
<1> DEFINE seen   == Visible(text)
           before == {i \in from .. Len(seen) - 1 : EndsLine(seen[i]) /\ IsBlank(seen[i + 1])}
           crlf   == {i \in before : seen[i].head.eol = "crlf" /\ seen[i + 1].head.eol = "crlf"}
           lf     == {i \in before : seen[i + 1].head.eol = "lf"}
           T      == IF crlf # {} THEN crlf ELSE lf
           e      == HeadEnd(text, from)
<1>1. /\ seen \in Seq(Units) /\ Len(seen) \in 0 .. Len(text) /\ Len(text) \in Nat
      /\ \A i \in 1 .. Len(seen) : seen[i] = text[i]
  BY VisibleIs
<1>2. e = FirstOf[T]
  BY DEF HeadEnd
<1>. HIDE DEF seen, e
<1>3. \A i \in from .. Len(seen) - 1 :
         i \in 1 .. Len(text) /\ i + 1 \in 1 .. Len(text) /\ seen[i] = text[i] /\ seen[i + 1] = text[i + 1]
  BY <1>1
<1>4. before \subseteq Nat /\ \A i \in before : i \in from .. Len(seen) - 1 /\ EndsLine(text[i]) /\ IsBlank(text[i + 1])
  <2>1. \A i \in before : i \in from .. Len(seen) - 1 /\ EndsLine(seen[i]) /\ IsBlank(seen[i + 1])
    OBVIOUS
  <2>2. \A i \in from .. Len(seen) - 1 : i \in Nat
    BY <1>1
  <2>. HIDE DEF before
  <2>3. ASSUME NEW i \in before
        PROVE  i \in Nat /\ i \in from .. Len(seen) - 1 /\ EndsLine(text[i]) /\ IsBlank(text[i + 1])
    <3>1. seen[i] = text[i] /\ seen[i + 1] = text[i + 1]
      BY <1>3, <2>1
    <3>. QED BY <2>1, <2>2, <3>1
  <2>. QED BY <2>3
<1>5. T \subseteq before
  OBVIOUS
<1>6. e \in Nat /\ (e # 0 => e \in T)
  BY <1>2, <1>4, <1>5, FirstIs
<1>7. ASSUME Alike(text), NEW i \in from .. Len(seen) - 1, EndsLine(text[i]), IsBlank(text[i + 1])
      PROVE  e # 0 /\ e <= i
  <2>1. i \in before
    BY <1>3, <1>7
  <2>2. text[i].head.eol = text[1].head.eol /\ text[i + 1].head.eol = text[1].head.eol
    BY <1>3, <1>7 DEF Alike
  <2>3. text[i].head.eol \in {"crlf", "lf"}
    <3>1. text[i] \in Units
      BY <1>3
    <3>. QED BY <3>1, UnitIs DEF HeadForms
  <2>4. ASSUME text[1].head.eol = "crlf" PROVE i \in T
    <3>1. i \in crlf
      BY <1>3, <2>1, <2>2, <2>4
    <3>2. i \in T
      BY <3>1
    <3>. QED BY <3>2
  <2>5. ASSUME text[1].head.eol = "lf" PROVE i \in T
    <3>1. \A j \in before : seen[j].head.eol # "crlf"
      <4>. SUFFICES ASSUME NEW j \in before PROVE seen[j].head.eol # "crlf"
        OBVIOUS
      <4>1. j \in 1 .. Len(text) /\ seen[j] = text[j]
        BY <1>3, <1>4
      <4>. QED BY <1>7, <2>5, <4>1 DEF Alike
    <3>2. T = lf /\ i \in lf
      BY <1>3, <2>1, <2>2, <2>5, <3>1
    <3>. QED BY <3>2
  <2>6. i \in T
    BY <2>2, <2>3, <2>4, <2>5
  <2>. HIDE DEF T
  <2>7. T \subseteq Nat
    BY <1>4, <1>5
  <2>8. FirstOf[T] \in T /\ FirstOf[T] <= i
    BY <2>6, <2>7, FirstIs
  <2>9. e \in from .. Len(seen) - 1
    BY <1>2, <1>4, <1>5, <2>8
  <2>. QED BY <1>1, <1>2, <2>8, <2>9
<1>8. e # 0 => /\ e \in from .. Len(seen) - 1 /\ e + 1 \in 1 .. Len(text)
               /\ e \in 1 .. Len(text) /\ EndsLine(text[e]) /\ IsBlank(text[e + 1])
  BY <1>3, <1>4, <1>5, <1>6
<1>. HIDE DEF T, before
<1>. QED BY <1>6, <1>7, <1>8 DEF e, seen

(* Where the first line ends.                                               *)
LEMMA HeadStartIs ==
  ASSUME NEW text \in Seq(Units)
  PROVE  /\ HeadStart(text) \in 0 .. Len(text)
         /\ Alike(text) => \A i \in 1 .. Len(Visible(text)) :
                              EndsLine(text[i]) => HeadStart(text) # 0 /\ HeadStart(text) <= i
<1> DEFINE ends == {i \in DOMAIN Visible(text) : EndsLine(text[i])}
           crlf == {i \in ends : text[i].head.eol = "crlf"}
           T    == IF crlf # {} THEN crlf ELSE ends
<1>1. Visible(text) \in Seq(Units) /\ Len(Visible(text)) \in 0 .. Len(text) /\ Len(text) \in Nat
  BY VisibleIs
<1>2. DOMAIN Visible(text) = 1 .. Len(Visible(text)) /\ DOMAIN text = 1 .. Len(text)
  BY <1>1
<1>3. T \subseteq ends /\ ends \subseteq 1 .. Len(text) /\ T \subseteq Nat
  BY <1>1, <1>2
<1>4. HeadStart(text) = FirstOf[T]
  BY DEF HeadStart
<1>5. HeadStart(text) \in 0 .. Len(text)
  BY <1>1, <1>3, <1>4, FirstIs
<1>6. ASSUME Alike(text), NEW i \in 1 .. Len(Visible(text)), EndsLine(text[i])
      PROVE  HeadStart(text) # 0 /\ HeadStart(text) <= i
  <2>1. i \in ends /\ i \in 1 .. Len(text)
    BY <1>1, <1>2, <1>6
  <2>2. i \in T
    <3>1. CASE text[1].head.eol = "crlf"
      BY <1>2, <1>6, <2>1, <3>1 DEF Alike
    <3>2. CASE text[1].head.eol # "crlf"
      <4>1. crlf = {}
        BY <1>2, <1>3, <1>6, <3>2 DEF Alike
      <4>. QED BY <2>1, <4>1
    <3>. QED BY <3>1, <3>2
  <2>. HIDE DEF T
  <2>3. FirstOf[T] \in T /\ FirstOf[T] <= i
    BY <1>3, <2>2, FirstIs
  <2>. QED BY <1>3, <1>4, <2>3
<1>. QED BY <1>5, <1>6

(* The status that a text is taken to have: that of its first unit.         *)
LEMMA StatusIs ==
  ASSUME NEW text \in Seq(Units), text # <<>>, unpacked = 0
  PROVE  StatusOf(text) = IF IsStatus(text[1]) /\ text[1].head.version = "1.1"
                            THEN text[1].req ELSE 0
<1>1. CASE IsStatus(text[1])
  <2>1. Len(text) \in Nat /\ 1 \in 1 .. Len(text) /\ text[1] \in Units
    OBVIOUS
  <2>2. ~ IsBody(text[1])
    BY <1>1, <2>1, UnitIs DEF IsStatus, IsBody
  <2>3. \A j \in 1 .. 1 : j # unpacked /\ ~ IsBody(text[j])
    BY <2>2
  <2>4. 1 <= Len(Visible(text))
    BY <2>1, <2>3, VisibleIs
  <2>5. Visible(text) # <<>>
    BY <2>4
  <2>. QED BY <2>5 DEF StatusOf
<1>2. CASE ~ IsStatus(text[1])
  BY <1>2 DEF StatusOf
<1>. QED BY <1>1, <1>2

LEMMA StatusIsNumber ==
  ASSUME NEW text \in Seq(Units)
  PROVE  StatusOf(text) \in 0 .. MaxRequests
<1>1. CASE Visible(text) = <<>>
  BY <1>1, HttpAssumption DEF StatusOf
<1>2. CASE Visible(text) # <<>>
  <2>1. Visible(text) \in Seq(Units) /\ Len(Visible(text)) \in 0 .. Len(text) /\ Len(text) \in Nat
    BY VisibleIs
  <2>2. Len(Visible(text)) # 0
    BY <1>2, <2>1, EmptySeq
  <2>3. text[1] \in Units
    BY <2>1, <2>2
  <2>. QED BY <2>3, UnitIs, HttpAssumption DEF StatusOf
<1>. QED BY <1>1, <1>2

(* The header that a head is read as.                                       *)
LEMMA HeaderTyped ==
  ASSUME NEW text \in Seq(Units), NEW start \in 0 .. Len(text), NEW end \in 0 .. Len(text), NEW misread
  PROVE  /\ HeaderOf(text, start, end, misread) \in [length: Nat \cup {NoLength}, type: 0 .. MaxRequests]
         /\ FirstOf[FieldsIn(text, start, end)] \in Nat
<1> DEFINE F == FieldsIn(text, start, end)
           A == {k \in {k \in F : <<k, "length">> \notin misread} : text[k].head.length # "absent"}
           B == {k \in {k \in F : <<k, "type">> \notin misread} : text[k].head.type}
           a == FirstOf[A]
           b == FirstOf[B]
<1>1. HeaderOf(text, start, end, misread)
        = [length |-> IF a = 0 THEN NoLength ELSE text[a].n, type |-> IF b = 0 THEN 0 ELSE text[b].req]
  BY DEF HeaderOf
<1>2. F \subseteq 1 .. Len(text) /\ F \subseteq Nat
  BY DEF FieldsIn
<1>3. A \subseteq F /\ B \subseteq F
  OBVIOUS
<1>. HIDE DEF A, B, F
<1>4. (a # 0 => a \in 1 .. Len(text)) /\ (b # 0 => b \in 1 .. Len(text)) /\ FirstOf[F] \in Nat
  <2>1. A \subseteq Nat /\ B \subseteq Nat
    BY <1>2, <1>3
  <2>. QED BY <1>2, <1>3, <2>1, FirstIs
<1>. HIDE DEF a, b
<1>5. (a # 0 => text[a] \in Units) /\ (b # 0 => text[b] \in Units)
  BY <1>4
<1>6. (a # 0 => text[a].n \in Nat) /\ (b # 0 => text[b].req \in 0 .. MaxRequests)
  BY <1>5, UnitIs, HttpAssumption
<1>. QED BY <1>1, <1>4, <1>6, HttpAssumption DEF F

-----------------------------------------------------------------------------
(* Steps keep the types.                                                   *)

LEMMA ParseTyped ==
  ASSUME IInv, Parse
  PROVE  IInv'
<1>. DEFINE status == StatusOf(Text)
            start == HeadStart(Text)
            end == HeadEnd(Text, start + 1)
<1>1. Text \in Seq(Units) /\ unpacked \in Nat /\ Len(Text) \in Nat
  BY TextIsUnits DEF IInv, RespTyped
<1>2. status \in 0 .. MaxRequests /\ start \in 0 .. Len(Text)
  BY <1>1, StatusIsNumber, HeadStartIs
<1>3. end \in 0 .. Len(Text)
  <2>1. start + 1 \in Nat \ {0}
    BY <1>1, <1>2
  <2>. HIDE DEF start
  <2>2. end \in Nat /\ (end # 0 => end \in 1 .. Len(Text))
    BY <1>1, <2>1, HeadEndIs
  <2>. HIDE DEF end
  <2>. QED BY <1>1, <2>2
<1>4. code' \in 0 .. MaxRequests
  BY <1>2 DEF Parse, ParseResp, IInv, RespTyped
<1>. HIDE DEF start, end
<1>5. /\ unpacked' \in Nat /\ content' \in Nat
      /\ header' \in [length: Nat \cup {NoLength}, type: 0 .. MaxRequests]
      /\ result' \in {"none", "OK", "FAIL", "undefined"}
      /\ pc' \in {"idle", "undefined"}
  <2>1. CASE /\ result' \in {"FAIL", "undefined"} /\ pc' \in {"idle", "undefined"}
             /\ UNCHANGED <<content, header, unpacked>>
    BY <2>1 DEF IInv, RespTyped
  <2>2. CASE /\ result' = "OK" /\ pc' = "idle"
             /\ content' = BodyStart(Text, end)
             /\ \E misread : header' = HeaderOf(Text, start, end, misread)
             /\ unpacked' \in {unpacked, FirstOf[FieldsIn(Text, start, end)]}
    <3>1. content' \in Nat
      BY <1>1, <1>3, <2>2 DEF BodyStart
    <3>. QED BY <1>1, <1>2, <1>3, <2>2, <3>1, HeaderTyped
  <2>. QED BY <2>1, <2>2 DEF Parse, ParseResp, start, end
<1>6. CallTyped' /\ TextsTyped' /\ PeerTyped' /\ HistoryTyped' /\ Numbered'
  BY <1>5 DEF Parse, IInv, CallTyped, TextsTyped, PeerTyped, HistoryTyped, Numbered, PCs, peerVars, history
<1>. QED BY <1>4, <1>5, <1>6 DEF IInv, RespTyped

(* What arrives and what is put are units of the texts.                     *)
LEMMA ReceiveTyped ==
  ASSUME IInv, Receive
  PROVE  IInv'
<1> DEFINE n == IF Len(down) < ReadChunk THEN Len(down) ELSE ReadChunk
           units == SubSeq(down, 1, n)
<1>1. down \in Seq(Units) /\ resp \in Seq(Units) /\ got \in Seq(Units) /\ n \in Nat /\ n <= Len(down)
  BY HttpAssumption DEF IInv, TextsTyped
<1>2. units \in Seq(Units) /\ SubSeq(down, n + 1, Len(down)) \in Seq(Units)
  <2>. HIDE DEF n
  <2>. QED BY <1>1
<1>3. /\ down' = SubSeq(down, n + 1, Len(down)) /\ chunk' = units /\ got' = got \o units
      /\ resp' = resp \o units /\ residue' = residue
      /\ unpacked' \in Nat
  BY DEF Receive, PutData, IInv, RespTyped
<1>. HIDE DEF n, units
<1>4. TextsTyped'
  <2>1. resp' \in Seq(Units) /\ got' \in Seq(Units)
    BY <1>1, <1>2, <1>3
  <2>2. chunk' \in Seq(Units) /\ down' \in Seq(Units)
    BY <1>2, <1>3
  <2>3. residue' \in Seq(Units) /\ emitting' \in Seq(Units)
    BY <1>3 DEF Receive, peerVars, IInv, TextsTyped
  <2>. QED BY <2>1, <2>2, <2>3 DEF TextsTyped
<1>5. CallTyped' /\ PeerTyped' /\ HistoryTyped' /\ Numbered'
  BY DEF Receive, IInv, CallTyped, PeerTyped, HistoryTyped, Numbered, PCs, peerVars
<1>. QED BY <1>3, <1>4, <1>5 DEF Receive, IInv, RespTyped

LEMMA SendSomeTyped ==
  ASSUME IInv, NEW k \in 1 .. WriteChunk, SendSome(k)
  PROVE  IInv'
<1>1. sent \in 0 .. ReqLen /\ sent + k <= ReqLen /\ k \in Nat /\ req \in 1 .. MaxRequests
  BY HttpAssumption DEF IInv, CallTyped, Numbered, SendSome, InSendLoop
<1>2. [i \in 1 .. k |-> <<req, sent + i>>] \in Seq((1 .. MaxRequests) \X (1 .. ReqLen))
  <2>1. \A i \in 1 .. k : sent + i \in 1 .. ReqLen
    BY <1>1, HttpAssumption
  <2>. QED BY <1>1, <2>1
<1>3. PeerTyped'
  <2>1. up' \in Seq((1 .. MaxRequests) \X (1 .. ReqLen))
    BY <1>2 DEF SendSome, IInv, PeerTyped
  <2>. QED BY <2>1 DEF SendSome, IInv, PeerTyped
<1>4. CallTyped'
  BY <1>1, HttpAssumption DEF SendSome, IInv, CallTyped
<1>. QED BY <1>3, <1>4 DEF SendSome, IInv, TextsTyped, RespTyped, HistoryTyped, Numbered, respVars, history

LEMMA SendErrorTyped ==
  ASSUME IInv, SendError
  PROVE  IInv'
<1>1. HistoryTyped'
  <2>1. errors.all + 1 \in 0 .. MaxSendErrors /\ errors.call + 1 \in 0 .. MaxSendErrors
    BY HttpAssumption DEF SendError, IInv, HistoryTyped
  <2>2. errors' = [all |-> errors.all + 1, call |-> errors.call + 1]
    BY DEF SendError
  <2>3. errors'.call <= errors'.all
    BY <2>2 DEF IInv, HistoryTyped
  <2>. QED BY <2>1, <2>2, <2>3 DEF SendError, IInv, HistoryTyped
<1>2. CallTyped'
  BY HttpAssumption DEF SendError, InSendLoop, IInv, CallTyped
<1>. QED BY <1>1, <1>2 DEF SendError, IInv, TextsTyped, RespTyped, PeerTyped, Numbered, respVars, peerVars

(* The start of a call.                                                    *)
LEMMA NextCallTyped ==
  ASSUME IInv, NEW k \in {"request", "file"}, NextCall(k)
  PROVE  /\ CallTyped' /\ Numbered' /\ HistoryTyped'
         /\ result' = "none" /\ got' = <<>>
<1>1. CallTyped' /\ Numbered'
  BY HttpAssumption DEF NextCall, IInv, CallTyped, Numbered, PCs
<1>2. errors' \in [all: 0 .. MaxSendErrors, call: 0 .. MaxSendErrors] /\ errors'.call <= errors'.all
  BY HttpAssumption DEF NextCall, IInv, HistoryTyped
<1>3. clean' \in BOOLEAN
  BY DEF NextCall
<1>. QED BY <1>1, <1>2, <1>3 DEF NextCall, HistoryTyped

LEMMA RequestTyped ==
  ASSUME IInv, Request
  PROVE  IInv'
<1>1. CallTyped' /\ Numbered' /\ HistoryTyped' /\ result' = "none" /\ got' = <<>>
  BY NextCallTyped DEF Request
<1>2. TextsTyped'
  BY <1>1, TextIsUnits DEF Request, Clear, IInv, TextsTyped, peerVars
<1>3. RespTyped' /\ PeerTyped'
  BY <1>1, HttpAssumption DEF Request, Clear, NoHeader, NoLength, IInv, RespTyped, PeerTyped, peerVars
<1>. QED BY <1>1, <1>2, <1>3 DEF IInv

LEMMA SendFileTyped ==
  ASSUME IInv, SendFile
  PROVE  IInv'
<1>1. CallTyped' /\ Numbered' /\ HistoryTyped' /\ result' = "none" /\ got' = <<>>
  BY NextCallTyped DEF SendFile
<1>. QED BY <1>1 DEF SendFile, IInv, TextsTyped, RespTyped, PeerTyped, peerVars

LEMMA CreateTyped ==
  ASSUME IInv, Create
  PROVE  IInv'
<1>1. CallTyped' /\ Numbered' /\ HistoryTyped'
  BY DEF Create, IInv, CallTyped, Numbered, HistoryTyped, PCs, history
<1>2. TextsTyped' /\ RespTyped'
  BY HttpAssumption DEF Create, NewConnection, NoHeader, NoLength, IInv, TextsTyped, RespTyped, history
<1>3. PeerTyped'
  <2>1. up' = <<>> /\ closed' = FALSE /\ answered' = req
    BY DEF Create, NewConnection
  <2>2. req \in 0 .. MaxRequests
    BY DEF IInv, CallTyped
  <2>. QED BY <2>1, <2>2, EmptyIsSeq DEF PeerTyped
<1>. QED BY <1>1, <1>2, <1>3 DEF IInv

(* The peer.                                                               *)
LEMMA PeerKeepsTypes ==
  ASSUME IInv, Peer
  PROVE  IInv'
<1>1. ASSUME NEW r \in 1 .. MaxRequests, NEW n \in BodyLengths, NEW h \in Heads, Answer(r, n, h)
      PROVE  IInv'
  <2>1. TextsTyped'
    BY <1>1, ResponseIs DEF Answer, IInv, TextsTyped, respVars, history
  <2>2. PeerTyped'
    BY <1>1, HttpAssumption DEF Answer, IInv, PeerTyped
  <2>. QED BY <1>1, <2>1, <2>2 DEF Answer, IInv, CallTyped, RespTyped, HistoryTyped, Numbered,
                                   callVars, respVars, history
<1>2. CASE Deliver
  <2>1. TextsTyped'
    BY <1>2 DEF Deliver, IInv, TextsTyped, respVars, history
  <2>. QED BY <1>2, <2>1 DEF Deliver, IInv, CallTyped, RespTyped, PeerTyped, HistoryTyped, Numbered,
                             callVars, respVars, history
<1>3. CASE Close
  BY <1>3 DEF Close, IInv, CallTyped, TextsTyped, RespTyped, PeerTyped, HistoryTyped, Numbered,
              callVars, respVars, history
<1>. QED BY <1>1, <1>2, <1>3 DEF Peer

(* The other steps only move on.                                           *)
LEMMA MovesTyped ==
  ASSUME IInv, SendReturns \/ TestRemaining \/ ReceiveEnd \/ WaitFirstTimeout \/ Destroy
  PROVE  IInv'
<1>1. CASE SendReturns
  BY <1>1 DEF SendReturns, IInv, CallTyped, TextsTyped, RespTyped, PeerTyped, HistoryTyped, Numbered,
              PCs, peerVars, history
<1>2. CASE TestRemaining
  BY <1>2 DEF TestRemaining, IInv, CallTyped, TextsTyped, RespTyped, PeerTyped, HistoryTyped, Numbered,
              PCs, respVars, peerVars
<1>3. CASE ReceiveEnd
  BY <1>3 DEF ReceiveEnd, IInv, CallTyped, TextsTyped, RespTyped, PeerTyped, HistoryTyped, Numbered,
              PCs, respVars, peerVars
<1>4. CASE WaitFirstTimeout
  BY <1>4 DEF WaitFirstTimeout, IInv, CallTyped, TextsTyped, RespTyped, PeerTyped, HistoryTyped, Numbered,
              PCs, peerVars
<1>5. CASE Destroy
  BY <1>5 DEF Destroy, IInv, CallTyped, TextsTyped, RespTyped, PeerTyped, HistoryTyped, Numbered,
              PCs, respVars, peerVars, history
<1>. QED BY <1>1, <1>2, <1>3, <1>4, <1>5

LEMMA WaitNextTimeoutTyped ==
  ASSUME IInv, WaitNextTimeout
  PROVE  IInv'
<1>1. TextsTyped'
  BY DEF WaitNextTimeout, PutData, IInv, TextsTyped, peerVars
<1>2. RespTyped'
  BY DEF WaitNextTimeout, PutData, IInv, RespTyped
<1>. QED BY <1>1, <1>2 DEF WaitNextTimeout, IInv, CallTyped, PeerTyped, HistoryTyped, Numbered, PCs, peerVars

-----------------------------------------------------------------------------
(* The inductive invariant of the types.                                    *)
THEOREM Invariance == Spec => []IInv
<1>1. Init => IInv
  <2>. SUFFICES ASSUME Init PROVE IInv
    OBVIOUS
  <2>1. CallTyped /\ Numbered
    BY HttpAssumption DEF Init, CallTyped, Numbered, PCs
  <2>2. TextsTyped /\ RespTyped
    BY HttpAssumption DEF Init, NoHeader, NoLength, TextsTyped, RespTyped
  <2>4. PeerTyped
    <3>1. up = <<>> /\ closed = FALSE /\ answered = 0 /\ 0 \in 0 .. MaxRequests
      BY HttpAssumption DEF Init
    <3>. QED BY <3>1, EmptyIsSeq DEF PeerTyped
  <2>3. HistoryTyped
    BY HttpAssumption DEF Init, HistoryTyped
  <2>. QED BY <2>1, <2>2, <2>3, <2>4 DEF IInv
<1>2. IInv /\ [Next]_vars => IInv'
  <2>. SUFFICES ASSUME IInv, [Next]_vars PROVE IInv'
    OBVIOUS
  <2>1. CASE Library
    BY <2>1, SendSomeTyped, SendErrorTyped, ReceiveTyped, MovesTyped, WaitNextTimeoutTyped, ParseTyped
       DEF Library
  <2>2. CASE Application
    BY <2>2, CreateTyped, RequestTyped, SendFileTyped, MovesTyped DEF Application
  <2>3. CASE Peer
    BY <2>3, PeerKeepsTypes
  <2>4. CASE UNCHANGED vars
    BY <2>4 DEF vars, callVars, respVars, peerVars, history, IInv, CallTyped, TextsTyped, RespTyped,
                PeerTyped, HistoryTyped, Numbered
  <2>. QED BY <2>1, <2>2, <2>3, <2>4 DEF Next
<1>. QED BY <1>1, <1>2, PTL DEF Spec

(* Every variable of HttpTransaction keeps its type.                        *)
THEOREM TypesInvariant == Spec => []TypeOK
<1>1. IInv => TypeOK
  BY DEF IInv, CallTyped, TextsTyped, RespTyped, PeerTyped, HistoryTyped, TypeOK
<1>. QED BY <1>1, Invariance, PTL

-----------------------------------------------------------------------------
(* What the read loop has put.                                             *)

PutSoFar == IF ended = "timeout" THEN got \o chunk ELSE got

(* A file that is sent finds resp_buffer empty only when it begins clean.   *)
LoopPuts ==
  kind = "request" \/ clean =>
    /\ pc \in {"send", "first"} => resp = <<>> /\ got = <<>>
    /\ pc \in {"send", "first", "size", "loop"} => ended = "no"
    /\ pc \in {"send", "first", "size", "loop", "parse"} => result = "none"
    /\ pc \in {"size", "loop"} => resp = got
    /\ pc = "parse" \/ result = "OK" => resp = PutSoFar

LEMMA LoopPutsKept ==
  ASSUME IInv, LoopPuts, [Next]_vars
  PROVE  LoopPuts'
<1>1. CASE UNCHANGED vars
  BY <1>1 DEF vars, callVars, respVars, peerVars, history, LoopPuts, PutSoFar
<1>2. CASE Peer
  <2>1. UNCHANGED <<callVars, respVars, history>>
    BY <1>2 DEF Peer, Answer, Deliver, Close
  <2>. QED BY <2>1 DEF callVars, respVars, history, LoopPuts, PutSoFar
<1>3. CASE Create
  BY <1>3 DEF Create, LoopPuts, PutSoFar, history
<1>4. CASE Destroy
  BY <1>4 DEF Destroy, LoopPuts, PutSoFar, history, respVars
<1>5. CASE Request
  BY <1>5 DEF Request, NextCall, Clear, LoopPuts
<1>6. CASE SendFile
  BY <1>6 DEF SendFile, NextCall, LoopPuts
<1>7. ASSUME NEW k \in 1 .. WriteChunk, SendSome(k) PROVE LoopPuts'
  BY <1>7 DEF SendSome, InSendLoop, LoopPuts, PutSoFar, respVars, history
<1>8. CASE SendError
  BY <1>8 DEF SendError, InSendLoop, LoopPuts, PutSoFar, respVars
<1>9. CASE SendReturns
  BY <1>9 DEF SendReturns, LoopPuts, PutSoFar, history
<1>10. CASE Receive
  <2> DEFINE units == SubSeq(down, 1, IF Len(down) < ReadChunk THEN Len(down) ELSE ReadChunk)
  <2>1. resp' = resp \o units /\ got' = got \o units
    BY <1>10 DEF Receive, PutData
  <2>. HIDE DEF units
  <2>2. /\ pc \in {"first", "loop"} /\ pc' = "size"
        /\ UNCHANGED <<kind, result, ended, clean>>
    BY <1>10 DEF Receive
  <2>. QED BY <2>1, <2>2 DEF LoopPuts
<1>11. CASE TestRemaining
  BY <1>11 DEF TestRemaining, LoopPuts, PutSoFar, respVars
<1>12. CASE ReceiveEnd
  BY <1>12 DEF ReceiveEnd, LoopPuts, PutSoFar, respVars
<1>13. CASE WaitFirstTimeout
  BY <1>13 DEF WaitFirstTimeout, LoopPuts
<1>14. CASE WaitNextTimeout
  BY <1>14 DEF WaitNextTimeout, PutData, LoopPuts, PutSoFar
<1>15. CASE Parse
  <2>1. /\ pc = "parse" /\ pc' \in {"idle", "undefined"}
        /\ UNCHANGED <<kind, resp, chunk, history>>
    BY <1>15 DEF Parse, ParseResp
  <2>. QED BY <2>1 DEF LoopPuts, PutSoFar, history
<1>. QED BY <1>1, <1>2, <1>3, <1>4, <1>5, <1>6, <1>7, <1>8, <1>9, <1>10, <1>11, <1>12, <1>13,
            <1>14, <1>15 DEF Next, Library, Application

(* Whatever arrives when and in what pieces, resp_buffer holds what recv     *)
(* returned, once and in order, except for the last chunk of a call whose   *)
(* later wait gave up.                                                      *)
THEOREM ChunkPutOnceInvariant == Spec => []ChunkPutOnce
<1>1. Init => LoopPuts
  BY DEF Init, LoopPuts, PutSoFar
<1>2. IInv /\ LoopPuts /\ [Next]_vars => LoopPuts'
  BY LoopPutsKept
<1>3. LoopPuts => ChunkPutOnce
  BY DEF LoopPuts, PutSoFar, ChunkPutOnce
<1>. QED BY <1>1, <1>2, <1>3, Invariance, PTL DEF Spec
-----------------------------------------------------------------------------
(* Whose answer a call reports.                                            *)

(* What a text has, it has from another.                                    *)
From(text, other) == \A i \in DOMAIN text : \E j \in DOMAIN other : text[i] = other[j]

(* What the read loop has received and put so far: the last chunk is of it,  *)
(* and only the closing of the connection leaves it without a byte.  What a *)
(* request, or a call that begins clean, puts first ends the cut of the     *)
(* response before, and a request has cleared the status of that.           *)
ReadInv ==
  /\ pc \in {"send", "first"} => got = <<>>
  /\ pc \in {"size", "loop"} => got # <<>>
  /\ pc \in {"size", "loop", "parse"} /\ got # <<>> =>
       From(chunk, got) /\ (kind = "request" \/ clean => unpacked = 0)
  /\ pc = "parse" => ended # "no" /\ (ended # "closed" => got # <<>>)
  /\ kind = "request" /\ pc \in {"send", "first", "size", "loop", "parse"} => code = 0

(* Requests reach the peer in the order of the calls.                       *)
NoneAhead == \A i \in DOMAIN up : up[i][1] <= req

AnswerInv == ReadInv /\ NoneAhead /\ AnswersFirst

(* What resp_buffer begins with when a call parses that has received.        *)
LEMMA TextBegins ==
  ASSUME IInv, LoopPuts, ReadInv, pc = "parse", got # <<>>, kind = "request" \/ clean
  PROVE  /\ Text = resp /\ resp \in Seq(Units) /\ unpacked = 0
         /\ Len(got) \in Nat \ {0} /\ Len(got) <= Len(resp) /\ Len(resp) \in Nat
         /\ \A i \in 1 .. Len(got) : resp[i] = got[i]
         /\ From(resp, got)
         /\ ended = "complete" => resp = got
<1>1. got \in Seq(Units) /\ chunk \in Seq(Units) /\ resp \in Seq(Units)
  BY DEF IInv, TextsTyped
<1>2. resp = PutSoFar
  BY DEF LoopPuts
<1>3. Len(got) \in Nat \ {0} /\ DOMAIN got = 1 .. Len(got)
  BY <1>1, EmptySeq
<1>4. unpacked = 0 /\ From(chunk, got)
  BY DEF ReadInv
<1>5. CASE ended = "timeout"
  <2>1. resp = got \o chunk
    BY <1>2, <1>5 DEF PutSoFar
  <2>2. Len(resp) = Len(got) + Len(chunk) /\ Len(chunk) \in Nat /\ DOMAIN chunk = 1 .. Len(chunk)
        /\ DOMAIN resp = 1 .. Len(got) + Len(chunk)
    BY <1>1, <2>1, ConcatProperties
  <2>3. \A i \in 1 .. Len(got) + Len(chunk) :
          resp[i] = IF i <= Len(got) THEN got[i] ELSE chunk[i - Len(got)]
    BY <1>1, <2>1, <2>2, ConcatProperties
  <2>4. resp # <<>>
    BY <1>1, <2>1, ConcatEqualIffEmpty
  <2>5. From(resp, got)
    <3>. SUFFICES ASSUME NEW i \in 1 .. Len(got) + Len(chunk) PROVE \E j \in DOMAIN got : resp[i] = got[j]
      BY <2>2 DEF From
    <3>1. CASE i <= Len(got)
      <4>1. i \in DOMAIN got
        BY <1>3, <2>2, <3>1
      <4>. QED BY <2>3, <3>1, <4>1
    <3>2. CASE i > Len(got)
      <4>1. resp[i] = chunk[i - Len(got)] /\ i - Len(got) \in DOMAIN chunk
        BY <1>3, <2>2, <2>3, <3>2
      <4>. QED BY <1>4, <4>1 DEF From
    <3>. QED BY <1>3, <2>2, <3>1, <3>2
  <2>6. \A i \in 1 .. Len(got) : resp[i] = got[i]
    BY <1>3, <2>2, <2>3
  <2>. QED BY <1>1, <1>3, <1>4, <1>5, <2>2, <2>4, <2>5, <2>6 DEF Text
<1>6. CASE ended # "timeout"
  <2>1. resp = got
    BY <1>2, <1>6 DEF PutSoFar
  <2>. QED BY <1>1, <1>3, <1>4, <2>1 DEF Text, From
<1>. QED BY <1>5, <1>6

(* What a request that succeeds reports.                                    *)
LEMMA ParseReports ==
  ASSUME IInv, LoopPuts, ReadInv, Parse, got # <<>>, kind = "request" \/ clean
  PROVE  code' = LET status == IF IsStatus(got[1]) /\ got[1].head.version = "1.1" THEN got[1].req ELSE 0
                 IN  IF status = 0 THEN code ELSE status
<1>1. Text \in Seq(Units) /\ Text # <<>> /\ unpacked = 0 /\ Text[1] = got[1]
  <2>1. pc = "parse"
    BY DEF Parse
  <2>2. /\ Text = resp /\ resp \in Seq(Units) /\ unpacked = 0
        /\ Len(got) \in Nat \ {0} /\ Len(got) <= Len(resp) /\ Len(resp) \in Nat
        /\ \A i \in 1 .. Len(got) : resp[i] = got[i]
    BY <2>1, TextBegins
  <2>3. Len(resp) # 0 /\ resp[1] = got[1]
    BY <2>2
  <2>. QED BY <2>2, <2>3, EmptySeq
<1>2. StatusOf(Text) = IF IsStatus(got[1]) /\ got[1].head.version = "1.1" THEN got[1].req ELSE 0
  BY <1>1, StatusIs
<1>. QED BY <1>2 DEF Parse, ParseResp

-----------------------------------------------------------------------------
(* The steps.                                                              *)

(* Those after which the call has received and put as much as before.       *)
LEMMA MovesKeepRead ==
  ASSUME ReadInv, AnswersFirst,
         UNCHANGED <<kind, got, chunk, unpacked, code, clean>>,
         \/ UNCHANGED <<pc, ended>>
         \/ pc = "send" /\ pc' \in {"first", "idle"} /\ UNCHANGED ended
         \/ pc = "first" /\ pc' = "idle"
         \/ pc = "first" /\ pc' = "parse" /\ ended' = "closed"
         \/ pc = "size" /\ pc' = "loop" /\ UNCHANGED ended
         \/ pc \in {"size", "loop"} /\ pc' = "parse" /\ ended' # "no"
         \/ pc = "idle" /\ pc' = "none",
         result' = result \/ result' = "FAIL"
  PROVE  ReadInv' /\ AnswersFirst'
BY DEF ReadInv, AnswersFirst, From

LEMMA CallKeepsRead ==
  ASSUME ReadInv, Request \/ SendFile
  PROVE  ReadInv' /\ AnswersFirst'
<1>1. pc' = "send" /\ got' = <<>> /\ result' = "none" /\ (kind' = "request" => code' = 0)
  BY DEF Request, SendFile, NextCall, Clear
<1>. QED BY <1>1 DEF ReadInv, AnswersFirst

LEMMA ReceiveKeepsRead ==
  ASSUME IInv, LoopPuts, ReadInv, AnswersFirst, Receive
  PROVE  ReadInv' /\ AnswersFirst'
<1> DEFINE n == IF Len(down) < ReadChunk THEN Len(down) ELSE ReadChunk
           units == SubSeq(down, 1, n)
<1>1. /\ down \in Seq(Units) /\ down # <<>> /\ got \in Seq(Units)
      /\ n \in Nat \ {0} /\ n <= Len(down)
  BY HttpAssumption DEF IInv, TextsTyped, Receive
<1>2. units \in Seq(Units) /\ Len(units) = n
  <2>. HIDE DEF n
  <2>. QED BY <1>1
<1>3. /\ got' = got \o units /\ chunk' = units
      /\ unpacked' = IF resp = <<>> THEN 0 ELSE unpacked
      /\ pc \in {"first", "loop"} /\ pc' = "size"
      /\ UNCHANGED <<kind, code, result, clean>>
  BY DEF Receive, PutData
<1>. HIDE DEF n, units
<1>4. /\ Len(got) \in Nat /\ DOMAIN (got \o units) = 1 .. Len(got) + n /\ DOMAIN units = 1 .. n
      /\ \A i \in 1 .. Len(got) + n : (got \o units)[i] = IF i <= Len(got) THEN got[i] ELSE units[i - Len(got)]
  <2>1. got \o units \in Seq(Units) /\ Len(got \o units) = Len(got) + n
    BY <1>1, <1>2, ConcatProperties
  <2>2. \A i \in 1 .. Len(got) + Len(units) :
          (got \o units)[i] = IF i <= Len(got) THEN got[i] ELSE units[i - Len(got)]
    BY <1>1, <1>2, ConcatProperties
  <2>3. Len(got) \in Nat /\ DOMAIN units = 1 .. Len(units) /\ DOMAIN (got \o units) = 1 .. Len(got \o units)
    BY <1>1, <1>2, <2>1
  <2>. QED BY <1>2, <2>1, <2>2, <2>3
<1>5. got' # <<>>
  <2>1. 1 \in DOMAIN (got \o units)
    BY <1>1, <1>4
  <2>. QED BY <1>3, <2>1
<1>6. From(chunk', got')
  <2>. SUFFICES ASSUME NEW i \in 1 .. n PROVE \E j \in DOMAIN (got \o units) : units[i] = (got \o units)[j]
    BY <1>3, <1>4 DEF From
  <2>1. Len(got) + i \in 1 .. Len(got) + n /\ ~ (Len(got) + i <= Len(got)) /\ (Len(got) + i) - Len(got) = i
    BY <1>1, <1>4
  <2>. QED BY <1>4, <2>1
<1>7. kind = "request" \/ clean => unpacked' = 0
  <2>1. ASSUME kind = "request" \/ clean, pc = "first" PROVE unpacked' = 0
    BY <1>3, <2>1 DEF LoopPuts
  <2>2. ASSUME kind = "request" \/ clean, pc = "loop" PROVE unpacked' = 0
    BY <1>3, <2>2 DEF ReadInv
  <2>. QED BY <1>3, <2>1, <2>2
<1>8. kind = "request" => code = 0 /\ result = "none"
  BY <1>3 DEF ReadInv, LoopPuts
<1>. QED BY <1>3, <1>5, <1>6, <1>7, <1>8 DEF ReadInv, AnswersFirst

LEMMA WaitNextTimeoutKeepsRead ==
  ASSUME IInv, LoopPuts, ReadInv, AnswersFirst, WaitNextTimeout
  PROVE  ReadInv' /\ AnswersFirst'
<1>1. /\ pc = "loop" /\ pc' = "parse" /\ ended' = "timeout"
      /\ unpacked' = IF resp = <<>> THEN 0 ELSE unpacked
      /\ UNCHANGED <<kind, got, chunk, code, result, clean>>
  BY DEF WaitNextTimeout, PutData
<1>2. kind = "request" => result = "none"
  BY <1>1 DEF LoopPuts
<1>. QED BY <1>1, <1>2 DEF ReadInv, AnswersFirst, From

LEMMA ParseKeepsRead ==
  ASSUME IInv, LoopPuts, ReadInv, Parse
  PROVE  ReadInv' /\ AnswersFirst'
<1>1. pc' \in {"idle", "undefined"} /\ UNCHANGED <<kind, got>>
  BY DEF Parse, ParseResp, history
<1>2. ASSUME kind = "request", got # <<>>
      PROVE  code' = IF IsStatus(got[1]) /\ got[1].head.version = "1.1" THEN got[1].req ELSE 0
  <2>1. code = 0
    BY <1>2 DEF ReadInv, Parse
  <2>. QED BY <1>2, <2>1, ParseReports
<1>. QED BY <1>1, <1>2 DEF ReadInv, AnswersFirst

(* Units of the current call go out behind those of earlier ones.            *)
LEMMA SendSomeKeepsOrder ==
  ASSUME IInv, NoneAhead, NEW k \in 1 .. WriteChunk, SendSome(k)
  PROVE  NoneAhead'
<1> DEFINE new == [i \in 1 .. k |-> <<req, sent + i>>]
<1>1. up' = up \o new /\ req' = req
  BY DEF SendSome
<1>2. \A i \in DOMAIN (up \o new) : (up \o new)[i][1] <= req
  <2>1. k \in Nat /\ Len(new) = k /\ \A i \in 1 .. k : new[i][1] = req
    BY HttpAssumption
  <2>2. new \in Seq(Nat \X Int) /\ up \in Seq(Nat \X Int)
    <3>1. req \in Nat /\ sent \in Int
      BY HttpAssumption DEF IInv, CallTyped
    <3>2. new \in Seq(Nat \X Int)
      BY <2>1, <3>1
    <3>3. (1 .. MaxRequests) \X (1 .. ReqLen) \subseteq Nat \X Int
      BY HttpAssumption
    <3>4. up \in Seq(Nat \X Int)
      BY <3>3 DEF IInv, PeerTyped
    <3>. QED BY <3>2, <3>4
  <2>. HIDE DEF new
  <2>3. \A i \in DOMAIN up : up[i][1] <= req
    BY DEF NoneAhead
  <2>4. req \in Nat
    BY DEF IInv, CallTyped
  <2>5. \A i \in DOMAIN (up \o new) : (up \o new)[i][1] <= req
    <3>. SUFFICES ASSUME NEW i \in DOMAIN (up \o new) PROVE (up \o new)[i][1] <= req
      OBVIOUS
    <3>1. Len(up) \in Nat /\ DOMAIN (up \o new) = 1 .. Len(up) + k /\ DOMAIN up = 1 .. Len(up)
      <4>1. up \o new \in Seq(Nat \X Int) /\ Len(up \o new) = Len(up) + Len(new)
        BY <2>2
      <4>2. Len(up) \in Nat /\ DOMAIN up = 1 .. Len(up)
        BY <2>2
      <4>3. DOMAIN (up \o new) = 1 .. Len(up \o new)
        BY <4>1
      <4>. QED BY <2>1, <4>1, <4>2, <4>3
    <3>2. CASE i <= Len(up)
      <4>1. (up \o new)[i] = up[i] /\ i \in DOMAIN up
        BY <2>2, <3>1, <3>2
      <4>. QED BY <2>3, <4>1
    <3>3. CASE i > Len(up)
      <4>1. (up \o new)[i] = new[i - Len(up)] /\ i - Len(up) \in 1 .. k
        BY <2>1, <2>2, <3>1, <3>3
      <4>2. new[i - Len(up)][1] = req
        BY <2>1, <4>1
      <4>. QED BY <2>4, <4>1, <4>2
    <3>. QED BY <3>1, <3>2, <3>3
  <2>. QED BY <2>5
<1>. QED BY <1>1, <1>2 DEF NoneAhead

LEMMA AnswerKept ==
  ASSUME IInv, LoopPuts, AnswerInv, [Next]_vars
  PROVE  AnswerInv'
<1>0. ReadInv /\ NoneAhead /\ AnswersFirst
  BY DEF AnswerInv
<1>1. ASSUME UNCHANGED <<up, req>> PROVE NoneAhead'
  BY <1>0, <1>1 DEF NoneAhead
<1>2. CASE UNCHANGED vars
  BY <1>0, <1>1, <1>2, MovesKeepRead DEF vars, callVars, respVars, peerVars, history, AnswerInv
<1>3. CASE Peer
  <2>1. UNCHANGED <<callVars, respVars, history, up>>
    BY <1>3 DEF Peer, Answer, Deliver, Close
  <2>. QED BY <1>0, <1>1, <2>1, MovesKeepRead DEF callVars, respVars, history, AnswerInv
<1>4. CASE Create
  <2>1. pc' = "idle" /\ result' = "none" /\ up' = <<>>
    BY <1>4 DEF Create, NewConnection
  <2>. QED BY <2>1 DEF AnswerInv, ReadInv, NoneAhead, AnswersFirst
<1>5. CASE Destroy
  BY <1>0, <1>1, <1>5, MovesKeepRead DEF Destroy, respVars, peerVars, history, AnswerInv
<1>6. CASE Request \/ SendFile
  <2>0. up' = up /\ req' = req + 1
    BY <1>6 DEF Request, SendFile, NextCall, peerVars
  <2>1. up' = up /\ req' = req + 1 /\ req \in Nat /\ up \in Seq((1 .. MaxRequests) \X (1 .. ReqLen))
    BY <2>0, HttpAssumption DEF IInv, CallTyped, PeerTyped
  <2>2. NoneAhead'
    <3>. SUFFICES ASSUME NEW i \in DOMAIN up PROVE up[i][1] <= req + 1
      BY <2>1 DEF NoneAhead
    <3>1. up[i][1] \in Int
      <4>1. up[i] \in (1 .. MaxRequests) \X (1 .. ReqLen)
        BY <2>1
      <4>. QED BY <4>1
    <3>. QED BY <1>0, <2>1, <3>1 DEF NoneAhead
  <2>. QED BY <1>0, <1>6, <2>2, CallKeepsRead DEF AnswerInv
<1>7. ASSUME NEW k \in 1 .. WriteChunk, SendSome(k) PROVE AnswerInv'
  <2>1. ReadInv' /\ AnswersFirst'
    BY <1>0, <1>7, MovesKeepRead DEF SendSome, respVars, history
  <2>. QED BY <1>0, <1>7, <2>1, SendSomeKeepsOrder DEF AnswerInv
<1>8. CASE SendError
  BY <1>0, <1>1, <1>8, MovesKeepRead DEF SendError, respVars, peerVars, AnswerInv
<1>9. CASE SendReturns
  BY <1>0, <1>1, <1>9, MovesKeepRead DEF SendReturns, peerVars, history, AnswerInv
<1>10. CASE Receive
  BY <1>0, <1>1, <1>10, ReceiveKeepsRead DEF Receive, peerVars, AnswerInv
<1>11. CASE TestRemaining
  BY <1>0, <1>1, <1>11, MovesKeepRead DEF TestRemaining, respVars, peerVars, AnswerInv
<1>12. CASE ReceiveEnd
  BY <1>0, <1>1, <1>12, MovesKeepRead DEF ReceiveEnd, respVars, peerVars, AnswerInv
<1>13. CASE WaitFirstTimeout
  BY <1>0, <1>1, <1>13, MovesKeepRead DEF WaitFirstTimeout, peerVars, AnswerInv
<1>14. CASE WaitNextTimeout
  BY <1>0, <1>1, <1>14, WaitNextTimeoutKeepsRead DEF WaitNextTimeout, peerVars, AnswerInv
<1>15. CASE Parse
  BY <1>0, <1>1, <1>15, ParseKeepsRead DEF Parse, peerVars, AnswerInv
<1>. QED BY <1>2, <1>3, <1>4, <1>5, <1>6, <1>7, <1>8, <1>9, <1>10, <1>11, <1>12, <1>13, <1>14, <1>15
         DEF Next, Library, Application

(* The invariants hold of every behaviour.                                  *)
LEMMA AnswerInvariance == Spec => [](LoopPuts /\ AnswerInv)
<1>1. Init => LoopPuts /\ AnswerInv
  BY DEF Init, LoopPuts, PutSoFar, AnswerInv, ReadInv, NoneAhead, AnswersFirst
<1>2. IInv /\ (LoopPuts /\ AnswerInv) /\ [Next]_vars => (LoopPuts /\ AnswerInv)'
  BY LoopPutsKept, AnswerKept
<1>. QED BY <1>1, <1>2, Invariance, PTL DEF Spec

(* Whatever earlier calls left in resp_buffer and on the connection, and     *)
(* however the answer is cut into pieces, a request reports what the first  *)
(* bytes it received say, if those are a status line of HTTP/1.1, and 0     *)
(* otherwise (http_transaction.c:137-160 and 247-287).                      *)
THEOREM AnswersFirstInvariant == Spec => []AnswersFirst
<1>1. LoopPuts /\ AnswerInv => AnswersFirst
  BY DEF AnswerInv
<1>. QED BY <1>1, AnswerInvariance, PTL

-----------------------------------------------------------------------------
(* What has gone out.                                                      *)

(* The units of the current request are those from "first" on, each at most  *)
(* one ahead of the one before it; there is one more for each time send()    *)
(* failed than the loop of mms_socket_send has counted.                     *)
SentFrom(first) ==
  /\ \A i \in DOMAIN up : up[i][1] = req <=> i >= first
  /\ Len(up) - first + 1 = sent + errors.call
  /\ \A i \in first .. Len(up) - 1 : up[i + 1][2] <= up[i][2] + 1
  /\ first <= Len(up) => up[first][2] = 1 /\ up[Len(up)][2] >= sent

Out ==
  pc = "send" \/ Reading =>
    /\ \E first \in 1 .. Len(up) + 1 : SentFrom(first)
    /\ kind = "request" /\ Reading => sent = ReqLen

LEMMA UpIs ==
  ASSUME IInv
  PROVE  /\ Len(up) \in Nat /\ DOMAIN up = 1 .. Len(up)
         /\ \A i \in 1 .. Len(up) : up[i][1] \in 1 .. MaxRequests /\ up[i][2] \in 1 .. ReqLen
<1>1. up \in Seq((1 .. MaxRequests) \X (1 .. ReqLen))
  BY DEF IInv, PeerTyped
<1>2. Len(up) \in Nat /\ DOMAIN up = 1 .. Len(up)
  BY <1>1
<1>3. \A i \in 1 .. Len(up) : up[i] \in (1 .. MaxRequests) \X (1 .. ReqLen)
  BY <1>1, ElementOfSeq
<1>. QED BY <1>2, <1>3

(* A turn of the loop: its k units follow the last one, or one of those it   *)
(* repeats.                                                                *)
LEMMA SendSomeOut ==
  ASSUME IInv, Out, NEW k \in 1 .. WriteChunk, SendSome(k)
  PROVE  Out'
<1> DEFINE new == [i \in 1 .. k |-> <<req, sent + i>>]
           l == Len(up)
<1>1. /\ k \in Nat \ {0} /\ sent \in 0 .. ReqLen /\ sent + k <= ReqLen /\ ReqLen \in Nat
      /\ pc = "send" /\ pc' = "send" /\ req \in Nat /\ errors.call \in Nat
      /\ sent' = sent + k /\ up' = up \o new
      /\ UNCHANGED <<req, kind, errors>>
  BY HttpAssumption DEF SendSome, InSendLoop, IInv, CallTyped, HistoryTyped, history
<1>2. /\ l \in Nat /\ DOMAIN up = 1 .. l
      /\ \A i \in 1 .. l : up[i][1] \in Nat /\ up[i][2] \in Nat
  BY UpIs, HttpAssumption
<1>3. up \in Seq(Nat \X Int) /\ new \in Seq(Nat \X Int) /\ Len(new) = k
  <2>1. (1 .. MaxRequests) \X (1 .. ReqLen) \subseteq Nat \X Int
    BY HttpAssumption
  <2>2. up \in Seq(Nat \X Int)
    BY <2>1 DEF IInv, PeerTyped
  <2>3. \A i \in 1 .. k : new[i] \in Nat \X Int
    BY <1>1
  <2>. QED BY <1>1, <2>2, <2>3
<1>4. \A i \in 1 .. k : new[i][1] = req /\ new[i][2] = sent + i
  OBVIOUS
<1>. HIDE DEF new
<1>5. /\ Len(up') = l + k /\ DOMAIN up' = 1 .. l + k
      /\ \A i \in 1 .. l : up'[i] = up[i]
      /\ \A i \in l + 1 .. l + k : up'[i] = new[i - l]
  <2>1. Len(up \o new) = Len(up) + Len(new) /\ up \o new \in Seq(Nat \X Int)
    BY <1>3, ConcatProperties
  <2>2. \A i \in 1 .. Len(up) + Len(new) :
          (up \o new)[i] = IF i <= Len(up) THEN up[i] ELSE new[i - Len(up)]
    BY <1>3, ConcatProperties
  <2>3. DOMAIN (up \o new) = 1 .. Len(up \o new)
    BY <2>1
  <2>4. k \in Nat /\ l \in Nat /\ Len(new) = k /\ Len(up) = l /\ up' = up \o new
    BY <1>1, <1>2, <1>3
  <2>. HIDE DEF l
  <2>5. Len(up') = l + k /\ DOMAIN up' = 1 .. l + k
    BY <2>1, <2>3, <2>4
  <2>6. \A i \in 1 .. l + k : up'[i] = IF i <= l THEN up[i] ELSE new[i - l]
    BY <2>2, <2>4
  <2>7. \A i \in 1 .. l : i \in 1 .. l + k /\ i <= l
    BY <2>4
  <2>8. \A i \in l + 1 .. l + k : i \in 1 .. l + k /\ ~ i <= l
    BY <2>4
  <2>9. (\A i \in 1 .. l : up'[i] = up[i]) /\ \A i \in l + 1 .. l + k : up'[i] = new[i - l]
    BY <2>6, <2>7, <2>8
  <2>. QED BY <2>5, <2>9
<1>. HIDE DEF l
<1>6. \A i \in l + 1 .. l + k : up'[i][1] = req /\ up'[i][2] = sent + (i - l)
  <2>. SUFFICES ASSUME NEW i \in l + 1 .. l + k
                PROVE  up'[i][1] = req /\ up'[i][2] = sent + (i - l)
    OBVIOUS
  <2>1. i - l \in 1 .. k /\ up'[i] = new[i - l]
    BY <1>1, <1>2, <1>5
  <2>. QED BY <1>4, <2>1
<1>7. PICK first \in 1 .. l + 1 : SentFrom(first)
  BY <1>1 DEF Out, l
<1>8. /\ \A i \in 1 .. l : up[i][1] = req <=> i >= first
      /\ l - first + 1 = sent + errors.call
      /\ \A i \in first .. l - 1 : up[i + 1][2] <= up[i][2] + 1
      /\ first <= l => up[first][2] = 1 /\ up[l][2] >= sent
  BY <1>2, <1>7 DEF SentFrom, l
<1>9. \A i \in 1 .. l + k : up'[i][1] = req <=> i >= first
  <2>. SUFFICES ASSUME NEW i \in 1 .. l + k PROVE up'[i][1] = req <=> i >= first
    OBVIOUS
  <2>1. CASE i <= l
    BY <1>1, <1>2, <1>5, <1>8, <2>1
  <2>2. CASE i > l
    <3>1. i \in l + 1 .. l + k /\ i >= first
      BY <1>1, <1>2, <1>7, <2>2
    <3>. QED BY <1>6, <3>1
  <2>3. i <= l \/ i > l
    BY <1>1, <1>2
  <2>. QED BY <2>1, <2>2, <2>3
<1>10. \A i \in first .. l + k - 1 : up'[i + 1][2] <= up'[i][2] + 1
  <2>. SUFFICES ASSUME NEW i \in first .. l + k - 1 PROVE up'[i + 1][2] <= up'[i][2] + 1
    OBVIOUS
  <2>1. CASE i < l
    <3>1. i \in first .. l - 1 /\ i \in 1 .. l /\ i + 1 \in 1 .. l
      BY <1>1, <1>2, <1>7, <2>1
    <3>2. up'[i] = up[i] /\ up'[i + 1] = up[i + 1]
      BY <1>5, <3>1
    <3>. QED BY <1>8, <3>1, <3>2
  <2>2. CASE i = l
    <3>1. first <= l /\ l \in 1 .. l /\ l + 1 \in l + 1 .. l + k
      BY <1>1, <1>2, <1>7, <2>2
    <3>2. up'[l] = up[l] /\ up'[l + 1][2] = sent + ((l + 1) - l) /\ up[l][2] \in Nat
      BY <1>2, <1>5, <1>6, <3>1
    <3>3. up[l][2] >= sent
      BY <1>8, <3>1
    <3>. QED BY <1>1, <1>2, <2>2, <3>2, <3>3
  <2>3. CASE i > l
    <3>1. i \in l + 1 .. l + k /\ i + 1 \in l + 1 .. l + k
      BY <1>1, <1>2, <1>7, <2>3
    <3>2. up'[i][2] = sent + (i - l)
      BY <1>6, <3>1
    <3>3. up'[i + 1][2] = sent + ((i + 1) - l)
      BY <1>6, <3>1
    <3>. QED BY <1>1, <1>2, <3>1, <3>2, <3>3
  <2>4. i < l \/ i = l \/ i > l
    BY <1>2, <1>7
  <2>. QED BY <2>1, <2>2, <2>3, <2>4
<1>11. up'[first][2] = 1 /\ up'[l + k][2] >= sent + k
  <2>1. up'[l + k][2] = sent + k
    <3>1. l + k \in l + 1 .. l + k
      BY <1>1, <1>2
    <3>2. up'[l + k][2] = sent + ((l + k) - l)
      BY <1>6, <3>1
    <3>. QED BY <1>1, <1>2, <3>2
  <2>2. CASE first <= l
    BY <1>1, <1>2, <1>5, <1>7, <1>8, <2>1, <2>2
  <2>3. CASE first = l + 1
    <3>1. sent = 0
      <4>1. l - (l + 1) + 1 = sent + errors.call
        BY <1>8, <2>3
      <4>. QED BY <1>1, <1>2, <4>1
    <3>2. up'[l + 1][2] = sent + ((l + 1) - l)
      <4>1. l + 1 \in l + 1 .. l + k
        BY <1>1, <1>2
      <4>. QED BY <1>6, <4>1
    <3>. QED BY <1>1, <1>2, <2>1, <2>3, <3>1, <3>2
  <2>. QED BY <1>2, <1>7, <2>2, <2>3
<1>12. (l + k) - first + 1 = (sent + k) + errors.call
  <2>1. l - first + 1 = sent + errors.call /\ first \in Int
    BY <1>2, <1>7, <1>8
  <2>2. \A a, b, c, d, e \in Int : a - b + 1 = c + d => (a + e) - b + 1 = (c + e) + d
    OBVIOUS
  <2>3. l \in Int /\ sent \in Int /\ errors.call \in Int /\ k \in Int
    BY <1>1, <1>2
  <2>. QED BY <2>1, <2>2, <2>3
<1>13. SentFrom(first)'
  <2>1. Len(up') = l + k /\ DOMAIN up' = 1 .. l + k /\ sent' = sent + k /\ req' = req /\ errors' = errors
    BY <1>1, <1>5
  <2>2. \A i \in DOMAIN up' : up'[i][1] = req' <=> i >= first
    BY <1>9, <2>1
  <2>3. Len(up') - first + 1 = sent' + errors'.call
    BY <1>12, <2>1
  <2>4. \A i \in first .. Len(up') - 1 : up'[i + 1][2] <= up'[i][2] + 1
    <3>1. Len(up') - 1 = l + k - 1
      BY <1>1, <1>2, <2>1
    <3>. QED BY <1>10, <3>1
  <2>5. up'[first][2] = 1 /\ up'[Len(up')][2] >= sent'
    BY <1>11, <2>1
  <2>. QED BY <2>2, <2>3, <2>4, <2>5 DEF SentFrom
<1>14. first \in 1 .. Len(up') + 1
  BY <1>1, <1>2, <1>5, <1>7
<1>. QED BY <1>1, <1>13, <1>14 DEF Out, Reading

(* The other steps of a call.                                              *)
LEMMA OutKept ==
  ASSUME IInv, Out, NoneAhead, [Next]_vars
  PROVE  Out'
<1>1. ASSUME UNCHANGED <<req, sent, up, errors, kind>>,
             pc' = "send" => pc = "send",
             Reading' => Reading \/ (pc = "send" /\ (kind = "request" => sent = ReqLen))
      PROVE  Out'
  BY <1>1 DEF Out, Reading, SentFrom
<1>2. CASE UNCHANGED vars
  BY <1>1, <1>2 DEF vars, callVars, respVars, peerVars, history, Reading
<1>3. CASE Peer
  <2>1. UNCHANGED <<callVars, up, history>>
    BY <1>3 DEF Peer, Answer, Deliver, Close
  <2>. QED BY <1>1, <2>1 DEF callVars, history, Reading
<1>4. CASE Request \/ SendFile
  <2>1. /\ pc' = "send" /\ req' = req + 1 /\ sent' = 0 /\ up' = up /\ errors'.call = 0
    BY <1>4, HttpAssumption DEF Request, SendFile, NextCall, peerVars, IInv, HistoryTyped
  <2>2. Len(up) \in Nat /\ DOMAIN up = 1 .. Len(up) /\ \A i \in 1 .. Len(up) : up[i][1] \in Nat
    BY UpIs, HttpAssumption
  <2>3. req \in Nat /\ \A i \in 1 .. Len(up) : up[i][1] <= req
    BY <2>2 DEF NoneAhead, IInv, CallTyped
  <2>4. \A i \in 1 .. Len(up) : up[i][1] # req + 1 /\ ~ (i >= Len(up) + 1)
    BY <2>2, <2>3
  <2>5. \A i \in Len(up) + 1 .. Len(up) - 1 : FALSE
    BY <2>2
  <2>6. Len(up) - (Len(up) + 1) + 1 = 0 + 0 /\ ~ (Len(up) + 1 <= Len(up)) /\ Len(up) + 1 \in 1 .. Len(up) + 1
    BY <2>2
  <2>7. SentFrom(Len(up) + 1)'
    <3>1. \A i \in DOMAIN up' : up'[i][1] = req' <=> i >= Len(up') + 1
      BY <2>1, <2>2, <2>4
    <3>2. Len(up') - (Len(up') + 1) + 1 = sent' + errors'.call
      BY <2>1, <2>6
    <3>. QED BY <2>1, <2>5, <2>6, <3>1, <3>2 DEF SentFrom
  <2>8. ~ Reading'
    BY <2>1 DEF Reading
  <2>. QED BY <2>1, <2>6, <2>7, <2>8 DEF Out
<1>5. CASE Create \/ Destroy
  <2>1. pc' \in {"idle", "none"}
    BY <1>5 DEF Create, Destroy
  <2>. QED BY <2>1 DEF Out, Reading
<1>6. CASE SendError
  <2>1. /\ pc = "send" /\ sent \in 0 .. ReqLen /\ sent' = sent - 1
        /\ errors'.call = errors.call + 1 /\ errors.call \in Nat
        /\ UNCHANGED <<pc, kind, req, up>>
    BY <1>6, HttpAssumption DEF SendError, InSendLoop, IInv, CallTyped, HistoryTyped, peerVars
  <2>2. PICK first \in 1 .. Len(up) + 1 : SentFrom(first)
    BY <2>1 DEF Out
  <2>3. /\ Len(up) \in Nat /\ first \in Int
        /\ \A i \in 1 .. Len(up) : up[i][2] \in 1 .. ReqLen
    BY <2>2, UpIs
  <2>4. Len(up) - first + 1 = (sent - 1) + (errors.call + 1)
    <3>1. Len(up) - first + 1 = sent + errors.call
      BY <2>2 DEF SentFrom
    <3>2. sent \in Int /\ errors.call \in Int
      BY <2>1
    <3>. QED BY <3>1, <3>2
  <2>5. first <= Len(up) => up[Len(up)][2] >= sent - 1
    <3>. SUFFICES ASSUME first <= Len(up) PROVE up[Len(up)][2] >= sent - 1
      OBVIOUS
    <3>1. Len(up) \in 1 .. Len(up)
      BY <2>2, <2>3
    <3>2. up[Len(up)][2] >= sent
      BY <2>2 DEF SentFrom
    <3>3. up[Len(up)][2] \in Int
      BY <2>3, <3>1, HttpAssumption
    <3>. QED BY <2>1, <3>2, <3>3, HttpAssumption
  <2>6. SentFrom(first)'
    BY <2>1, <2>2, <2>4, <2>5 DEF SentFrom
  <2>7. ~ Reading'
    BY <2>1 DEF Reading
  <2>. QED BY <2>1, <2>2, <2>6, <2>7 DEF Out
<1>7. CASE SendReturns
  <2>1. kind = "request" /\ pc' # "idle" => sent = ReqLen
    BY <1>7 DEF SendReturns, SendAccepted
  <2>. QED BY <1>1, <1>7, <2>1 DEF SendReturns, peerVars, history, Reading
<1>8. CASE Receive \/ TestRemaining \/ ReceiveEnd \/ WaitFirstTimeout \/ WaitNextTimeout \/ Parse
  <2>1. /\ UNCHANGED <<req, sent, up, errors, kind>>
        /\ pc \in {"first", "size", "loop", "parse"} /\ pc' # "send"
    BY <1>8 DEF Receive, TestRemaining, ReceiveEnd, WaitFirstTimeout, WaitNextTimeout, Parse, ParseResp,
                peerVars, history
  <2>. QED BY <1>1, <2>1 DEF Reading
<1>. QED BY <1>2, <1>3, <1>4, <1>5, <1>6, <1>7, <1>8, SendSomeOut DEF Next, Library, Application

(* However send() cuts a request and however often it fails, a request that  *)
(* mms_socket_send reports as sent has reached the peer from its first byte *)
(* to its last without a gap (mms_socket.c:121-143).                        *)
THEOREM SentWithoutGapInvariant == Spec => []SentWithoutGap
<1>1. Init => Out
  BY DEF Init, Out, Reading
<1>2. IInv /\ AnswerInv /\ Out /\ [Next]_vars => Out'
  BY OutKept DEF AnswerInv
<1>3. IInv /\ Out => SentWithoutGap
  <2>. SUFFICES ASSUME IInv, Out, kind = "request", Reading
                PROVE  \E first \in DOMAIN up :
                         /\ \A i \in DOMAIN up : up[i][1] = req <=> i >= first
                         /\ up[first][2] = 1 /\ Last(up)[2] = ReqLen
                         /\ \A i \in first .. Len(up) - 1 : up[i + 1][2] <= up[i][2] + 1
                         /\ Len(up) - first + 1 = ReqLen + errors.call
    BY DEF SentWithoutGap
  <2>1. sent = ReqLen
    BY DEF Out
  <2>2. PICK first \in 1 .. Len(up) + 1 : SentFrom(first)
    BY DEF Out
  <2>3. /\ Len(up) \in Nat /\ DOMAIN up = 1 .. Len(up)
        /\ \A i \in 1 .. Len(up) : up[i][2] \in 1 .. ReqLen
        /\ ReqLen \in Nat \ {0} /\ errors.call \in Nat
    BY UpIs, HttpAssumption DEF IInv, HistoryTyped
  <2>4. first \in 1 .. Len(up)
    <3>1. Len(up) - first + 1 = ReqLen + errors.call
      BY <2>1, <2>2 DEF SentFrom
    <3>. QED BY <2>2, <2>3, <3>1
  <2>5. up[first][2] = 1 /\ up[Len(up)][2] >= ReqLen /\ up[Len(up)][2] \in 1 .. ReqLen
    BY <2>1, <2>2, <2>3, <2>4 DEF SentFrom
  <2>6. up[Len(up)][2] = ReqLen
    BY <2>3, <2>5
  <2>. QED BY <2>1, <2>2, <2>3, <2>4, <2>5, <2>6 DEF SentFrom, Last
<1>. QED BY <1>1, <1>2, <1>3, Invariance, AnswerInvariance, PTL DEF Spec
-----------------------------------------------------------------------------
(* What the client has not read yet, and the stream of the current call: what *)
(* it has received and what it has not read yet.                            *)
Unread == down \o emitting
InCall == pc \in {"send", "first", "size", "loop"}
Stream == IF InCall THEN got \o Unread ELSE Unread

(* Units of its response behind a unit.                                     *)
Left(u) == Size(u) - u.at

(* A unit is followed by the next of its response, and the last by the first *)
(* of another.                                                             *)
Next1(u, v) == v = [req |-> u.req, at |-> u.at + 1, n |-> u.n, head |-> u.head]
Linked(s) == \A i \in DOMAIN s : i + 1 \in DOMAIN s /\ s[i].at < Size(s[i]) => Next1(s[i], s[i + 1])
Bounded(s) ==
  /\ Linked(s)
  /\ \A i \in DOMAIN s : i + Left(s[i]) + 1 \in DOMAIN s => s[i + Left(s[i]) + 1].at = 1

(* No response is cut off.                                                  *)
Whole(s) == \A i \in DOMAIN s : i + Left(s[i]) <= Len(s)

AtBoundary == Unread = <<>> \/ Unread[1].at = 1

(* The stream is of such responses, and complete while the peer has not      *)
(* closed it.                                                              *)
StreamInv ==
  /\ Bounded(Stream)
  /\ ~ closed => Whole(Stream)
  /\ kind = "request" /\ ended = "complete" => ~ Alike(got) \/ AtBoundary

LEMMA LeftIsInt ==
  ASSUME NEW u \in Units
  PROVE  Left(u) \in Int /\ Size(u) \in Nat /\ u.at \in Nat \ {0}
BY UnitIs DEF Left

(* Places of a text put behind another.                                     *)
LEMMA JoinIs ==
  ASSUME NEW s \in Seq(Units), NEW t \in Seq(Units)
  PROVE  /\ Len(s) \in Nat /\ Len(t) \in Nat /\ Len(s \o t) = Len(s) + Len(t)
         /\ DOMAIN s = 1 .. Len(s) /\ DOMAIN t = 1 .. Len(t) /\ DOMAIN (s \o t) = 1 .. Len(s) + Len(t)
         /\ \A i \in 1 .. Len(s) : (s \o t)[i] = s[i] /\ i \in 1 .. Len(s) + Len(t)
         /\ \A i \in 1 .. Len(t) :
              (s \o t)[Len(s) + i] = t[i] /\ Len(s) + i \in 1 .. Len(s) + Len(t)
<1>1. s \o t \in Seq(Units) /\ Len(s \o t) = Len(s) + Len(t)
  BY ConcatProperties
<1>2. Len(s) \in Nat /\ Len(t) \in Nat /\ DOMAIN s = 1 .. Len(s) /\ DOMAIN t = 1 .. Len(t)
      /\ DOMAIN (s \o t) = 1 .. Len(s) + Len(t)
  BY <1>1
<1>3. \A i \in 1 .. Len(s) + Len(t) : (s \o t)[i] = IF i <= Len(s) THEN s[i] ELSE t[i - Len(s)]
  BY <1>1, <1>2, ConcatProperties
<1>4. \A i \in 1 .. Len(t) : Len(s) + i \in 1 .. Len(s) + Len(t) /\ ~ (Len(s) + i <= Len(s))
                             /\ (Len(s) + i) - Len(s) = i
  BY <1>2
<1>5. \A i \in 1 .. Len(s) : i \in 1 .. Len(s) + Len(t) /\ i <= Len(s)
  BY <1>2
<1>. QED BY <1>1, <1>2, <1>3, <1>4, <1>5

(* A prefix of a bounded text is bounded.                                   *)
LEMMA PrefixBounded ==
  ASSUME NEW s \in Seq(Units), NEW t \in Seq(Units), Bounded(s \o t)
  PROVE  Bounded(s)
<1>1. Linked(s)
  <2>. SUFFICES ASSUME NEW i \in 1 .. Len(s), i + 1 \in 1 .. Len(s), s[i].at < Size(s[i])
                PROVE  Next1(s[i], s[i + 1])
    BY JoinIs DEF Linked
  <2>. QED BY JoinIs DEF Bounded, Linked
<1>2. ASSUME NEW i \in 1 .. Len(s), i + Left(s[i]) + 1 \in 1 .. Len(s)
      PROVE  s[i + Left(s[i]) + 1].at = 1
  <2> DEFINE e == i + Left(s[i]) + 1
  <2>1. (s \o t)[i] = s[i] /\ i \in DOMAIN (s \o t)
    BY JoinIs
  <2>2. (s \o t)[e] = s[e] /\ e \in DOMAIN (s \o t)
    <3>. HIDE DEF e
    <3>1. e \in 1 .. Len(s)
      BY <1>2 DEF e
    <3>. QED BY <3>1, JoinIs
  <2>3. i + Left((s \o t)[i]) + 1 = e
    BY <2>1
  <2>. QED BY <2>1, <2>2, <2>3 DEF Bounded
<1>. QED BY <1>1, <1>2, JoinIs DEF Bounded

(* So is what follows a first part of it, and it is whole if the text is.    *)
LEMMA SuffixBounded ==
  ASSUME NEW s \in Seq(Units), NEW t \in Seq(Units)
  PROVE  /\ Bounded(s \o t) => Bounded(t)
         /\ Whole(s \o t) => Whole(t)
<1>1. Len(s) \in Nat /\ Len(t) \in Nat /\ \A i \in 1 .. Len(t) : Left(t[i]) \in Int
  <2>1. \A i \in 1 .. Len(t) : t[i] \in Units
    OBVIOUS
  <2>. QED BY <2>1, JoinIs, LeftIsInt
<1>2. ASSUME Bounded(s \o t), NEW i \in 1 .. Len(t), i + 1 \in 1 .. Len(t), t[i].at < Size(t[i])
      PROVE  Next1(t[i], t[i + 1])
  <2>1. Len(s) + (i + 1) = (Len(s) + i) + 1
    BY <1>1
  <2>2. /\ (s \o t)[Len(s) + i] = t[i] /\ Len(s) + i \in DOMAIN (s \o t)
        /\ (s \o t)[(Len(s) + i) + 1] = t[i + 1] /\ (Len(s) + i) + 1 \in DOMAIN (s \o t)
    BY <1>2, <2>1, JoinIs
  <2>. QED BY <1>2, <2>2 DEF Bounded, Linked
<1>3. ASSUME Bounded(s \o t), NEW i \in 1 .. Len(t), i + Left(t[i]) + 1 \in 1 .. Len(t)
      PROVE  t[i + Left(t[i]) + 1].at = 1
  <2>1. Len(s) + (i + Left(t[i]) + 1) = (Len(s) + i) + Left(t[i]) + 1
    BY <1>1
  <2>2. /\ (s \o t)[Len(s) + i] = t[i] /\ Len(s) + i \in DOMAIN (s \o t)
        /\ (s \o t)[(Len(s) + i) + Left(t[i]) + 1] = t[i + Left(t[i]) + 1]
        /\ (Len(s) + i) + Left(t[i]) + 1 \in DOMAIN (s \o t)
    BY <1>3, <2>1, JoinIs
  <2>. QED BY <1>3, <2>2 DEF Bounded
<1>4. ASSUME Whole(s \o t), NEW i \in 1 .. Len(t)
      PROVE  i + Left(t[i]) <= Len(t)
  <2>1. (s \o t)[Len(s) + i] = t[i] /\ Len(s) + i \in DOMAIN (s \o t)
    BY JoinIs
  <2>2. (Len(s) + i) + Left(t[i]) <= Len(s) + Len(t)
    BY <1>4, <2>1, JoinIs DEF Whole
  <2>. QED BY <1>1, <2>2
<1>5. Bounded(s \o t) => Bounded(t)
  BY <1>2, <1>3, JoinIs DEF Bounded, Linked
<1>6. Whole(s \o t) => Whole(t)
  BY <1>4, JoinIs DEF Whole
<1>. QED BY <1>5, <1>6

(* A response may follow a text that is bounded and whole.                  *)
LEMMA ResponseAppended ==
  ASSUME NEW s \in Seq(Units), Bounded(s), Whole(s),
         NEW r \in 1 .. MaxRequests, NEW n \in BodyLengths, NEW h \in Heads
  PROVE  Bounded(s \o Response(r, n, h)) /\ Whole(s \o Response(r, n, h))
<1> DEFINE R == Response(r, n, h)
           l == Len(s)
           m == Len(R)
           t == s \o R
<1>1. /\ R \in Seq(Units) /\ m = HeadLen(h) + n /\ m \in Nat /\ m >= 2
      /\ \A i \in 1 .. m : R[i] = [req |-> r, at |-> i, n |-> n, head |-> h]
  BY ResponseIs
<1>. HIDE DEF R
<1>2. \A i \in 1 .. m : R[i].at = i /\ Size(R[i]) = m /\ Left(R[i]) = m - i
  BY <1>1 DEF Size, Left
<1>3. /\ l \in Nat /\ DOMAIN s = 1 .. l /\ Len(t) = l + m /\ DOMAIN t = 1 .. l + m
      /\ \A i \in 1 .. l : t[i] = s[i]
      /\ \A i \in 1 .. m : t[l + i] = R[i]
  BY <1>1, JoinIs
<1>4. \A i \in 1 .. l : Left(s[i]) \in Int /\ s[i].at \in Nat /\ Size(s[i]) \in Nat /\ Left(s[i]) = Size(s[i]) - s[i].at
  <2>1. \A i \in 1 .. l : s[i] \in Units
    BY <1>3
  <2>. QED BY <2>1, LeftIsInt DEF Left
<1>5. \A i \in 1 .. l : i + Left(s[i]) <= l
  BY <1>3 DEF Whole
<1>. HIDE DEF l, m, t
<1>6. ASSUME NEW i \in 1 .. l + m, i > l
      PROVE  i - l \in 1 .. m /\ t[i] = R[i - l] /\ l + (i - l) = i
  <2>1. i - l \in 1 .. m /\ l + (i - l) = i
    BY <1>1, <1>3, <1>6
  <2>. QED BY <1>3, <2>1
<1>7. Linked(t)
  <2>. SUFFICES ASSUME NEW i \in 1 .. l + m, i + 1 \in 1 .. l + m, t[i].at < Size(t[i])
                PROVE  Next1(t[i], t[i + 1])
    BY <1>3 DEF Linked
  <2>1. CASE i + 1 <= l
    <3>1. i \in 1 .. l /\ i + 1 \in 1 .. l
      BY <1>3, <2>1
    <3>. QED BY <1>3, <3>1 DEF Bounded, Linked
  <2>2. CASE i = l
    <3>1. i \in 1 .. l /\ t[i] = s[i]
      BY <1>3, <2>2
    <3>. QED BY <1>4, <1>5, <2>2, <3>1
  <2>3. CASE i > l
    <3>1. i - l \in 1 .. m /\ t[i] = R[i - l]
      BY <1>6, <2>3
    <3>2. (i + 1) - l \in 1 .. m /\ t[i + 1] = R[(i + 1) - l] /\ (i + 1) - l = (i - l) + 1
      BY <1>3, <1>6, <2>3
    <3> DEFINE j == i - l
    <3>3. t[i] = [req |-> r, at |-> j, n |-> n, head |-> h]
      BY <1>1, <3>1
    <3>4. t[i + 1] = [req |-> r, at |-> j + 1, n |-> n, head |-> h]
      BY <1>1, <3>2
    <3>. HIDE DEF j
    <3>. QED BY <3>3, <3>4 DEF Next1
  <2>. QED BY <1>3, <2>1, <2>2, <2>3
<1>8. ASSUME NEW i \in 1 .. l + m
      PROVE  /\ i + Left(t[i]) <= l + m
             /\ i + Left(t[i]) + 1 \in 1 .. l + m => t[i + Left(t[i]) + 1].at = 1
  <2>1. CASE i <= l
    <3>1. i \in 1 .. l /\ t[i] = s[i]
      BY <1>3, <2>1
    <3> DEFINE e == i + Left(s[i]) + 1
    <3>2. e \in Int /\ e <= l + 1 /\ (e \in 1 .. l => s[e].at = 1)
      <4>1. e \in Int /\ e <= l + 1
        <5> DEFINE k == Left(s[i])
        <5>1. i \in Nat /\ l \in Nat
          BY <1>3, <3>1
        <5>2. k \in Int
          BY <1>4, <3>1
        <5>3. i + k <= l
          BY <1>5, <3>1
        <5>4. e = i + k + 1
          OBVIOUS
        <5>. HIDE DEF k, e
        <5>. QED BY <5>1, <5>2, <5>3, <5>4
      <4>2. e \in DOMAIN s => s[e].at = 1
        BY <1>3, <3>1 DEF Bounded
      <4>. QED BY <1>3, <4>1, <4>2
    <3>3. i + Left(s[i]) <= l + m
      BY <1>1, <1>3, <1>4, <1>5, <3>1
    <3>. HIDE DEF e
    <3>4. ASSUME e \in 1 .. l + m PROVE t[e].at = 1
      <4>1. CASE e <= l
        BY <1>3, <3>2, <3>4, <4>1
      <4>2. CASE e = l + 1
        <5>1. 1 \in 1 .. m
          BY <1>1
        <5>. QED BY <1>2, <1>3, <4>2, <5>1
      <4>. QED BY <1>3, <3>2, <4>1, <4>2
    <3>. QED BY <3>1, <3>3, <3>4 DEF e
  <2>2. CASE i > l
    <3>1. i - l \in 1 .. m /\ t[i] = R[i - l]
      BY <1>6, <2>2
    <3>2. Left(t[i]) = m - (i - l)
      BY <1>2, <3>1
    <3>. QED BY <1>1, <1>3, <3>2
  <2>. QED BY <1>3, <2>1, <2>2
<1>. QED BY <1>3, <1>7, <1>8 DEF Bounded, Whole, t, R

(* Concatenation of such texts is associative.                              *)
LEMMA TextsAssociative ==
  ASSUME NEW s \in Seq(Units), NEW t \in Seq(Units), NEW u \in Seq(Units)
  PROVE  (s \o t) \o u = s \o (t \o u)
BY ConcatAssociative

(* What the steps do to what is not read.                                   *)
LEMMA UnreadTyped ==
  ASSUME IInv
  PROVE  /\ down \in Seq(Units) /\ emitting \in Seq(Units) /\ got \in Seq(Units)
         /\ Unread \in Seq(Units) /\ Stream \in Seq(Units)
<1>1. down \in Seq(Units) /\ emitting \in Seq(Units) /\ got \in Seq(Units)
  BY DEF IInv, TextsTyped
<1>2. Unread \in Seq(Units)
  BY <1>1, ConcatProperties DEF Unread
<1>. QED BY <1>1, <1>2, ConcatProperties DEF Stream

LEMMA DeliverKeepsUnread ==
  ASSUME IInv, Deliver
  PROVE  Unread' = Unread
<1>1. down \in Seq(Units) /\ emitting \in Seq(Units) /\ emitting # <<>>
  BY UnreadTyped DEF Deliver
<1>2. down' = down \o <<Head(emitting)>> /\ emitting' = Tail(emitting)
  BY <1>1, AppendIsConcat, HeadTailProperties DEF Deliver
<1>3. <<Head(emitting)>> \in Seq(Units) /\ Tail(emitting) \in Seq(Units)
  BY <1>1
<1>4. emitting = <<Head(emitting)>> \o Tail(emitting)
  BY <1>1
<1>5. (down \o <<Head(emitting)>>) \o Tail(emitting) = down \o (<<Head(emitting)>> \o Tail(emitting))
  BY <1>1, <1>3, TextsAssociative
<1>. QED BY <1>2, <1>4, <1>5 DEF Unread

LEMMA ReceiveKeepsStream ==
  ASSUME IInv, Receive
  PROVE  Stream' = Stream /\ \E t \in Seq(Units) : t = Unread' /\ Stream = got' \o t
<1> DEFINE n == IF Len(down) < ReadChunk THEN Len(down) ELSE ReadChunk
           a == SubSeq(down, 1, n)
           b == SubSeq(down, n + 1, Len(down))
<1>1. down \in Seq(Units) /\ emitting \in Seq(Units) /\ got \in Seq(Units)
  BY UnreadTyped
<1>2. n \in 0 .. Len(down) /\ Len(down) \in Nat
  BY <1>1, HttpAssumption
<1>3. /\ pc \in {"first", "loop"} /\ pc' = "size"
      /\ down' = b /\ got' = got \o a /\ emitting' = emitting
  BY DEF Receive, peerVars
<1>. HIDE DEF n
<1>4. a \in Seq(Units) /\ b \in Seq(Units)
  BY <1>1, <1>2
<1>5. a \o b = down
  <2>1. SubSeq(down, 1, n) \o SubSeq(down, n + 1, Len(down)) = SubSeq(down, 1, Len(down))
    <3>1. 1 \in 1 .. Len(down) + 1 /\ n \in 1 - 1 .. Len(down) /\ Len(down) \in n .. Len(down)
      BY <1>2
    <3>. QED BY <1>1, <3>1, ConcatAdjacentSubSeq
  <2>. QED BY <1>1, <2>1, SubSeqFull
<1>. HIDE DEF a, b
<1>6. Unread' = b \o emitting /\ Unread' \in Seq(Units)
  BY <1>1, <1>3, <1>4, ConcatProperties DEF Unread
<1>7. Unread = a \o (b \o emitting)
  <2>1. (a \o b) \o emitting = a \o (b \o emitting)
    BY <1>1, <1>4, TextsAssociative
  <2>. QED BY <1>5, <2>1 DEF Unread
<1>8. (got \o a) \o (b \o emitting) = got \o (a \o (b \o emitting))
  <2>1. b \o emitting \in Seq(Units)
    BY <1>6
  <2>2. got \in Seq(Units) /\ a \in Seq(Units)
    BY <1>1, <1>4
  <2>. QED BY <2>1, <2>2, TextsAssociative
<1>9. Stream = got \o Unread /\ Stream' = got' \o Unread'
  BY <1>3 DEF Stream, InCall
<1>. QED BY <1>3, <1>6, <1>7, <1>8, <1>9

LEMMA AnswerAddsResponse ==
  ASSUME IInv, NEW r \in 1 .. MaxRequests, NEW n \in BodyLengths, NEW h \in Heads, Answer(r, n, h)
  PROVE  Unread' = Unread \o Response(r, n, h) /\ Stream' = Stream \o Response(r, n, h)
<1>1. down \in Seq(Units) /\ got \in Seq(Units) /\ Response(r, n, h) \in Seq(Units) /\ Unread \in Seq(Units)
  BY UnreadTyped, ResponseIs
<1>2. emitting = <<>> /\ emitting' = Response(r, n, h) /\ UNCHANGED <<down, got, pc>>
  BY DEF Answer, callVars, history
<1>3. Unread = down
  BY <1>1, <1>2, ConcatEmptySeq DEF Unread
<1>4. Unread' = Unread \o Response(r, n, h)
  BY <1>2, <1>3 DEF Unread
<1>5. (got \o Unread) \o Response(r, n, h) = got \o (Unread \o Response(r, n, h))
  BY <1>1, TextsAssociative
<1>. QED BY <1>2, <1>4, <1>5 DEF Stream, InCall

LEMMA CloseCutsStream ==
  ASSUME IInv, Close
  PROVE  Unread' = down /\ Stream' \in Seq(Units) /\ Stream = Stream' \o emitting
<1>1. down \in Seq(Units) /\ got \in Seq(Units) /\ emitting \in Seq(Units)
  BY UnreadTyped
<1>2. emitting' = <<>> /\ UNCHANGED <<down, got, pc>>
  BY DEF Close, callVars, history
<1>3. Unread' = down
  BY <1>1, <1>2, ConcatEmptySeq DEF Unread
<1>4. Stream' = (IF InCall THEN got \o down ELSE down)
  BY <1>2, <1>3 DEF Stream, InCall
<1>5. got \o (down \o emitting) = (got \o down) \o emitting /\ got \o down \in Seq(Units)
  BY <1>1, TextsAssociative, ConcatProperties
<1>. QED BY <1>1, <1>3, <1>4, <1>5 DEF Stream, Unread

-----------------------------------------------------------------------------
(* When nothing remains of a text whose lines end alike and whose units       *)
(* follow each other, it ends where a response does.                        *)
LEMMA NothingRemains ==
  ASSUME NEW text \in Seq(Units), GetRemainingSize(text) = 0, Alike(text), Linked(text)
  PROVE  \E k \in 1 .. Len(text) : SaysLength(text[k]) /\ k + Left(text[k]) = Len(text)
<1> DEFINE V == Visible(text)
           K == {i \in DOMAIN V : SaysLength(text[i])}
           k == FirstOf[K]
           e == HeadEnd(text, k)
<1>1. /\ Len(text) \in Nat /\ DOMAIN text = 1 .. Len(text)
      /\ V \in Seq(Units) /\ Len(V) \in 0 .. Len(text) /\ DOMAIN V = 1 .. Len(V)
  BY VisibleIs
<1>2. k # 0 /\ e # 0 /\ text[k].n - (Len(text) - (e + 1)) = 0
  <2>1. GetRemainingSize(text) = IF k = 0 \/ e = 0 THEN -1 ELSE text[k].n - (Len(text) - (e + 1))
    BY DEF GetRemainingSize
  <2>. QED BY <2>1
<1>3. k \in 1 .. Len(V) /\ SaysLength(text[k])
  <2>1. K \subseteq Nat
    BY <1>1
  <2>2. k \in K
    BY <1>2, <2>1, FirstIs
  <2>. QED BY <1>1, <2>2
<1>. HIDE DEF k, V, K, e
<1>4. /\ k \in Nat \ {0} /\ k \in 1 .. Len(text) /\ text[k] \in Units
      /\ text[k].at = 2 /\ text[k].head.fields /\ HeadLen(text[k].head) = 3
  BY <1>1, <1>3 DEF SaysLength, IsFields, HeadLen
<1>5. /\ e \in k .. Len(V) - 1 /\ e + 1 \in 1 .. Len(text)
      /\ \A i \in k .. Len(V) - 1 : EndsLine(text[i]) /\ IsBlank(text[i + 1]) => e <= i
  BY <1>2, <1>4, HeadEndIs DEF e, V
<1>6. e = k
  <2>1. k \in k .. Len(V) - 1 /\ k + 1 \in 1 .. Len(text)
    BY <1>1, <1>3, <1>5
  <2>2. text[k].n \in Nat /\ text[k].at < Size(text[k])
    BY <1>4, UnitIs DEF Size
  <2>3. text[k + 1].at = 3 /\ text[k + 1].head = text[k].head
    <3>1. Next1(text[k], text[k + 1])
      BY <1>1, <1>4, <2>1, <2>2 DEF Linked
    <3>2. text[k + 1] = [req |-> text[k].req, at |-> 3, n |-> text[k].n, head |-> text[k].head]
      BY <1>4, <3>1 DEF Next1
    <3>. QED BY <3>2
  <2>4. EndsLine(text[k]) /\ IsBlank(text[k + 1])
    BY <1>4, <2>3 DEF EndsLine, IsBody, IsBlank
  <2>. QED BY <1>1, <1>5, <2>1, <2>4
<1>7. k + Left(text[k]) = Len(text)
  <2>1. Left(text[k]) = 3 + text[k].n - 2 /\ text[k].n \in Nat
    BY <1>4, UnitIs DEF Left, Size
  <2>. QED BY <1>1, <1>2, <1>4, <1>6, <2>1
<1>. QED BY <1>3, <1>4, <1>7

(* A step after which the call has received as much and no more is read.    *)
LEMMA StreamStands ==
  ASSUME IInv, StreamInv, UNCHANGED <<got, down, emitting, closed>>, InCall' => InCall
  PROVE  /\ Bounded(Stream)' /\ (~ closed' => Whole(Stream)')
         /\ AtBoundary' = AtBoundary /\ Alike(got)' = Alike(got)
<1>1. Unread \in Seq(Units) /\ got \in Seq(Units)
  BY UnreadTyped
<1>2. Unread' = Unread
  BY DEF Unread
<1>3. Stream' = Stream \/ (Stream = got \o Unread /\ Stream' = Unread)
  <2>1. Stream = IF InCall THEN got \o Unread ELSE Unread
    BY DEF Stream
  <2>2. Stream' = IF InCall' THEN got \o Unread ELSE Unread
    BY <1>2 DEF Stream
  <2>. QED BY <2>1, <2>2 DEF InCall
<1>4. Bounded(Stream) /\ (~ closed => Whole(Stream))
  BY DEF StreamInv
<1>5. Bounded(Stream') /\ (~ closed => Whole(Stream'))
  BY <1>1, <1>3, <1>4, SuffixBounded
<1>6. AtBoundary' = AtBoundary
  BY <1>2 DEF AtBoundary
<1>7. Alike(got)' = Alike(got)
  BY DEF Alike
<1>. QED BY <1>5, <1>6, <1>7 DEF Bounded, Linked, Whole

(* The loop of a request that ends by the length leaves what is not read at  *)
(* the beginning of a response.                                            *)
LEMMA LengthEndsAtBoundary ==
  ASSUME IInv, LoopPuts, StreamInv, TestRemaining, kind = "request", ended' = "complete", Alike(got)
  PROVE  AtBoundary
<1>1. pc = "size" /\ resp = got /\ Stream = got \o Unread /\ GetRemainingSize(resp) = 0
  <2>1. pc = "size" /\ resp = got /\ ended = "no"
    BY DEF TestRemaining, LoopPuts
  <2>. QED BY <2>1 DEF TestRemaining, Stream, InCall
<1>2. got \in Seq(Units) /\ Unread \in Seq(Units) /\ Bounded(got \o Unread)
  BY <1>1, UnreadTyped DEF StreamInv
<1>3. Linked(got)
  BY <1>2, PrefixBounded DEF Bounded
<1>4. PICK k \in 1 .. Len(got) : k + Left(got[k]) = Len(got)
  BY <1>1, <1>2, <1>3, NothingRemains
<1>5. CASE Unread = <<>>
  BY <1>5 DEF AtBoundary
<1>6. CASE Unread # <<>>
  <2>1. 1 \in 1 .. Len(Unread)
    BY <1>2, <1>6, EmptySeq, JoinIs
  <2>2. (got \o Unread)[k] = got[k] /\ k \in DOMAIN (got \o Unread)
    BY <1>2, JoinIs
  <2>3. (got \o Unread)[Len(got) + 1] = Unread[1] /\ Len(got) + 1 \in DOMAIN (got \o Unread)
    BY <1>2, <2>1, JoinIs
  <2>4. (got \o Unread)[k + Left(got[k]) + 1].at = 1
    BY <1>2, <1>4, <2>2, <2>3 DEF Bounded
  <2>. QED BY <1>4, <2>3, <2>4 DEF AtBoundary
<1>. QED BY <1>5, <1>6

LEMMA PeerKeepsStream ==
  ASSUME IInv, StreamInv, Peer
  PROVE  StreamInv'
<1>1. UNCHANGED <<callVars, history>>
  BY DEF Peer, Answer, Deliver, Close
<1>2. Bounded(Stream) /\ (~ closed => Whole(Stream)) /\ Stream \in Seq(Units)
      /\ Unread \in Seq(Units) /\ down \in Seq(Units) /\ emitting \in Seq(Units)
  BY UnreadTyped DEF StreamInv
<1>3. ASSUME NEW r \in 1 .. MaxRequests, NEW n \in BodyLengths, NEW h \in Heads, Answer(r, n, h)
      PROVE  Bounded(Stream') /\ Whole(Stream') /\ (AtBoundary => AtBoundary')
  <2>1. Unread' = Unread \o Response(r, n, h) /\ Stream' = Stream \o Response(r, n, h)
    BY <1>3, AnswerAddsResponse
  <2>2. Bounded(Stream') /\ Whole(Stream')
    BY <1>2, <1>3, <2>1, ResponseAppended DEF Answer
  <2> DEFINE R == Response(r, n, h)
  <2>3. R \in Seq(Units) /\ R[1].at = 1 /\ Len(R) \in Nat /\ Len(R) >= 1
    <3>1. /\ R \in Seq(Units) /\ Len(R) \in Nat /\ Len(R) >= 2
          /\ \A i \in 1 .. Len(R) : R[i] = [req |-> r, at |-> i, n |-> n, head |-> h]
      BY ResponseIs
    <3>. HIDE DEF R
    <3>2. 1 \in 1 .. Len(R)
      BY <3>1
    <3>3. R[1] = [req |-> r, at |-> 1, n |-> n, head |-> h]
      BY <3>1, <3>2
    <3>. QED BY <3>1, <3>3
  <2>. HIDE DEF R
  <2>4. Unread = <<>> => Unread' = R
    BY <2>1, <2>3, ConcatEmptySeq DEF R
  <2>5. Unread # <<>> => Unread'[1] = Unread[1]
    BY <1>2, <2>1, <2>3 DEF R
  <2>. QED BY <2>2, <2>3, <2>4, <2>5 DEF AtBoundary
<1>4. CASE Deliver
  <2>1. Unread' = Unread
    BY <1>4, DeliverKeepsUnread
  <2>2. Stream' = Stream /\ closed' = closed
    BY <1>1, <1>4, <2>1 DEF Stream, InCall, callVars, history, Deliver
  <2>. QED BY <1>1, <1>2, <2>1, <2>2 DEF StreamInv, AtBoundary, Alike, Bounded, Linked, Whole, callVars, history
<1>5. CASE Close
  <2>1. Unread' = down /\ Stream' \in Seq(Units) /\ Stream = Stream' \o emitting /\ closed'
    BY <1>5, CloseCutsStream DEF Close
  <2>2. Bounded(Stream')
    BY <1>2, <2>1, PrefixBounded
  <2>3. AtBoundary => AtBoundary'
    <3>1. Unread = down \o emitting
      BY DEF Unread
    <3>2. down # <<>> => Unread # <<>> /\ Unread[1] = down[1]
      BY <1>2, <3>1
    <3>. QED BY <2>1, <3>2 DEF AtBoundary
  <2>. QED BY <1>1, <2>1, <2>2, <2>3 DEF StreamInv, Alike, Bounded, Linked, callVars, history
<1>. QED BY <1>1, <1>3, <1>4, <1>5 DEF Peer, StreamInv, Alike, Bounded, Linked, Whole, callVars, history

LEMMA StreamKept ==
  ASSUME IInv, LoopPuts, StreamInv, [Next]_vars
  PROVE  StreamInv'
<1>1. ASSUME UNCHANGED <<got, down, emitting, closed>>, InCall' => InCall,
             kind' = "request" /\ ended' = "complete" => ~ Alike(got) \/ AtBoundary
      PROVE  StreamInv'
  BY <1>1, StreamStands DEF StreamInv
<1>2. kind = "request" /\ ended = "complete" => ~ Alike(got) \/ AtBoundary
  BY DEF StreamInv
<1>3. CASE UNCHANGED vars
  BY <1>1, <1>2, <1>3 DEF vars, callVars, respVars, peerVars, history, InCall
<1>4. CASE Destroy
  BY <1>1, <1>2, <1>4 DEF Destroy, InCall, peerVars, history
<1>5. CASE Create
  <2>1. Unread' = <<>> /\ Stream' = <<>>
    <3>1. Unread' = <<>>
      BY <1>5 DEF Create, NewConnection, Unread
    <3>. QED BY <1>5, <3>1 DEF Create, Stream, InCall
  <2>. QED BY <2>1 DEF StreamInv, Bounded, Linked, Whole, AtBoundary
<1>6. CASE Request \/ SendFile
  <2>1. /\ pc = "idle" /\ pc' = "send" /\ got' = <<>> /\ ended' = "no"
        /\ UNCHANGED <<down, emitting, closed>>
    BY <1>6 DEF Request, SendFile, NextCall, peerVars
  <2>2. Unread' = Unread /\ Unread \in Seq(Units)
    BY <2>1, UnreadTyped DEF Unread
  <2>3. Stream' = Stream
    BY <2>1, <2>2, ConcatEmptySeq DEF Stream, InCall
  <2>. QED BY <2>1, <2>3 DEF StreamInv, Bounded, Linked, Whole
<1>7. ASSUME NEW k \in 1 .. WriteChunk, SendSome(k) PROVE StreamInv'
  BY <1>1, <1>2, <1>7 DEF SendSome, history, InCall
<1>8. CASE SendError
  BY <1>1, <1>2, <1>8 DEF SendError, peerVars, InCall
<1>9. CASE SendReturns
  BY <1>1, <1>2, <1>9 DEF SendReturns, peerVars, history, InCall
<1>10. CASE Receive
  <2>1. Stream' = Stream /\ UNCHANGED <<kind, ended, closed>>
    BY <1>10, ReceiveKeepsStream DEF Receive, peerVars
  <2>2. kind = "request" => ended = "no"
    BY <1>10 DEF Receive, LoopPuts
  <2>. QED BY <2>1, <2>2 DEF StreamInv, Bounded, Linked, Whole
<1>11. CASE TestRemaining
  <2>1. kind' = "request" /\ ended' = "complete" => ~ Alike(got) \/ AtBoundary
    BY <1>11, LengthEndsAtBoundary DEF TestRemaining
  <2>. QED BY <1>1, <1>11, <2>1 DEF TestRemaining, peerVars, InCall
<1>12. CASE ReceiveEnd
  BY <1>1, <1>12 DEF ReceiveEnd, peerVars, InCall
<1>13. CASE WaitFirstTimeout
  BY <1>1, <1>13 DEF WaitFirstTimeout, peerVars, InCall
<1>14. CASE WaitNextTimeout
  BY <1>1, <1>14 DEF WaitNextTimeout, peerVars, InCall
<1>15. CASE Parse
  BY <1>1, <1>2, <1>15 DEF Parse, ParseResp, peerVars, history, InCall
<1>. QED BY PeerKeepsStream, <1>3, <1>4, <1>5, <1>6, <1>7, <1>8, <1>9, <1>10, <1>11, <1>12, <1>13,
            <1>14, <1>15 DEF Next, Library, Application

(* When the length ends the read loop of a request whose bytes have one kind  *)
(* of line end, the next byte to be read is the first of a response: no     *)
(* call leaves a part of its answer to the next, whatever it began with     *)
(* (http_transaction.c:204-287).                                            *)
THEOREM StopsAtBoundaryInvariant == Spec => []StopsAtBoundary
<1>1. Init => StreamInv
  <2>. SUFFICES ASSUME Init PROVE StreamInv
    OBVIOUS
  <2>1. Unread = <<>> /\ Stream = <<>>
    BY DEF Init, Unread, Stream, InCall
  <2>. QED BY <2>1 DEF Init, StreamInv, Bounded, Linked, Whole, AtBoundary
<1>2. IInv /\ (LoopPuts /\ AnswerInv) /\ StreamInv /\ [Next]_vars => StreamInv'
  BY StreamKept
<1>3. IInv /\ StreamInv => StopsAtBoundary
  BY UnreadTyped DEF StreamInv, Alike, AtBoundary, Unread, StopsAtBoundary, IsStatus
<1>. QED BY <1>1, <1>2, <1>3, Invariance, AnswerInvariance, PTL DEF Spec

-----------------------------------------------------------------------------
(* What a clean call receives.                                             *)

(* Nothing, or a beginning of the answer to the call.                       *)
OwnAnswer(s) ==
  s = <<>> \/ /\ Len(s) <= Size(s[1])
              /\ \A i \in DOMAIN s : s[i] = Unit(req, i, s[1].n, s[1].head)

(* It is there as far as it says, in a length that the loop sees.            *)
AllThere(s) == s # <<>> /\ Len(s) = Size(s[1]) /\ s[1].head.length = "exact"

CleanStream ==
  clean =>
    /\ OwnAnswer(got)
    /\ InCall => /\ OwnAnswer(Stream)
                 /\ answered >= req - 1
                 /\ answered < req => Stream = <<>>
    /\ pc = "parse" /\ ended = "complete" => AllThere(got)

BodyInv ==
  /\ CleanStream
  /\ AnswersThisCall
  /\ ContentIsBody
  /\ UndefinedOnlyWithoutHead

(* The units of a beginning of the answer.                                  *)
LEMMA OwnAnswerIs ==
  ASSUME NEW s \in Seq(Units), s # <<>>, OwnAnswer(s)
  PROVE  /\ s[1] \in Units /\ Len(s) \in 1 .. Size(s[1]) /\ DOMAIN s = 1 .. Len(s)
         /\ \A i \in 1 .. Len(s) : /\ s[i].req = req /\ s[i].at = i /\ s[i].n = s[1].n
                                   /\ s[i].head = s[1].head /\ s[i] \in Units
         /\ Alike(s) /\ Linked(s)
<1>1. Len(s) \in Nat \ {0} /\ DOMAIN s = 1 .. Len(s)
  BY EmptySeq
<1>2. s[1] \in Units /\ Size(s[1]) \in Nat
  BY <1>1, UnitIs
<1>3. Len(s) \in 1 .. Size(s[1])
  BY <1>1, <1>2 DEF OwnAnswer
<1>4. \A i \in 1 .. Len(s) : s[i] = [req |-> req, at |-> i, n |-> s[1].n, head |-> s[1].head]
  BY <1>1 DEF OwnAnswer, Unit
<1>5. \A i \in 1 .. Len(s) : /\ s[i].req = req /\ s[i].at = i /\ s[i].n = s[1].n
                             /\ s[i].head = s[1].head /\ s[i] \in Units
  <2>. SUFFICES ASSUME NEW i \in 1 .. Len(s)
                PROVE  /\ s[i].req = req /\ s[i].at = i /\ s[i].n = s[1].n
                       /\ s[i].head = s[1].head /\ s[i] \in Units
    OBVIOUS
  <2>1. s[i] \in Units
    BY <1>1
  <2> DEFINE n == s[1].n
             h == s[1].head
  <2>2. s[i] = [req |-> req, at |-> i, n |-> n, head |-> h]
    BY <1>4
  <2>. HIDE DEF n, h
  <2>3. s[i].req = req /\ s[i].at = i /\ s[i].n = n /\ s[i].head = h
    BY <2>2
  <2>. QED BY <2>1, <2>3 DEF n, h
<1>6. Alike(s)
  BY <1>1, <1>5 DEF Alike
<1>7. Linked(s)
  <2>. SUFFICES ASSUME NEW i \in 1 .. Len(s), i + 1 \in 1 .. Len(s)
                PROVE  Next1(s[i], s[i + 1])
    BY <1>1 DEF Linked
  <2>1. s[i + 1] = [req |-> req, at |-> i + 1, n |-> s[1].n, head |-> s[1].head]
    BY <1>4
  <2>. QED BY <1>5, <2>1 DEF Next1
<1>. QED BY <1>1, <1>2, <1>3, <1>5, <1>6, <1>7

(* A beginning of a beginning is one.                                       *)
LEMMA OwnAnswerPrefix ==
  ASSUME NEW s \in Seq(Units), NEW t \in Seq(Units), OwnAnswer(s \o t)
  PROVE  OwnAnswer(s)
<1>1. CASE s = <<>>
  BY <1>1 DEF OwnAnswer
<1>2. CASE s # <<>>
  <2>1. Len(s) \in Nat \ {0} /\ 1 \in 1 .. Len(s)
    BY <1>2, EmptySeq
  <2>2. /\ Len(s \o t) = Len(s) + Len(t) /\ Len(t) \in Nat
        /\ DOMAIN s = 1 .. Len(s) /\ DOMAIN (s \o t) = 1 .. Len(s) + Len(t)
        /\ \A i \in 1 .. Len(s) : (s \o t)[i] = s[i] /\ i \in 1 .. Len(s) + Len(t)
    BY JoinIs
  <2>3. s \o t # <<>> /\ (s \o t)[1] = s[1]
    BY <1>2, <2>1, <2>2, ConcatEqualIffEmpty
  <2>4. Len(s) + Len(t) <= Size(s[1])
    BY <2>2, <2>3 DEF OwnAnswer
  <2>5. \A i \in 1 .. Len(s) : s[i] = Unit(req, i, s[1].n, s[1].head)
    BY <2>2, <2>3 DEF OwnAnswer
  <2>6. Size(s[1]) \in Nat
    <3>1. s[1] \in Units
      BY <2>1
    <3>. QED BY <3>1, UnitIs
  <2>. QED BY <2>1, <2>2, <2>4, <2>5, <2>6 DEF OwnAnswer
<1>. QED BY <1>1, <1>2

(* The response to the call is its own beginning.                           *)
LEMMA ResponseIsOwn ==
  ASSUME NEW n \in BodyLengths, NEW h \in Heads, req \in 1 .. MaxRequests
  PROVE  OwnAnswer(Response(req, n, h))
<1> DEFINE R == Response(req, n, h)
<1>1. /\ R \in Seq(Units) /\ Len(R) = HeadLen(h) + n /\ Len(R) \in Nat /\ Len(R) >= 2
      /\ \A i \in 1 .. Len(R) : R[i] = [req |-> req, at |-> i, n |-> n, head |-> h]
  BY ResponseIs
<1>. HIDE DEF R
<1>2. 1 \in 1 .. Len(R) /\ DOMAIN R = 1 .. Len(R)
  BY <1>1
<1>3. R[1].n = n /\ R[1].head = h
  BY <1>1, <1>2
<1>4. OwnAnswer(R)
  <2>1. Size(R[1]) = Len(R)
    BY <1>1, <1>3 DEF Size
  <2>2. \A i \in 1 .. Len(R) : R[i] = Unit(req, i, R[1].n, R[1].head)
    BY <1>1, <1>3 DEF Unit
  <2>. QED BY <1>1, <1>2, <2>1, <2>2 DEF OwnAnswer
<1>. QED BY <1>4 DEF R

(* A clean call whose loop ends by the length has the whole answer.         *)
LEMMA CompleteIsAllThere ==
  ASSUME IInv, LoopPuts, CleanStream, TestRemaining, clean, ended' = "complete"
  PROVE  AllThere(got)
<1>1. pc = "size" /\ resp = got /\ GetRemainingSize(got) = 0
  <2>1. pc = "size" /\ resp = got /\ ended = "no"
    BY DEF TestRemaining, LoopPuts
  <2>. QED BY <2>1 DEF TestRemaining
<1>2. got \in Seq(Units) /\ OwnAnswer(got)
  BY UnreadTyped DEF CleanStream
<1>3. got # <<>>
  <2>1. ASSUME got = <<>> PROVE FALSE
    <3>1. Alike(got) /\ Linked(got)
      BY <2>1 DEF Alike, Linked
    <3>2. PICK k \in 1 .. Len(got) : TRUE
      BY <1>1, <1>2, <3>1, NothingRemains
    <3>. QED BY <2>1, <3>2
  <2>. QED BY <2>1
<1>4. /\ got[1] \in Units /\ Len(got) \in 1 .. Size(got[1])
      /\ \A i \in 1 .. Len(got) : got[i].at = i /\ got[i].n = got[1].n /\ got[i].head = got[1].head
      /\ Alike(got) /\ Linked(got)
  BY <1>2, <1>3, OwnAnswerIs
<1>5. PICK k \in 1 .. Len(got) : SaysLength(got[k]) /\ k + Left(got[k]) = Len(got)
  BY <1>1, <1>2, <1>4, NothingRemains
<1>6. got[k].at = k /\ Size(got[k]) = Size(got[1]) /\ got[k].head = got[1].head
  BY <1>4 DEF Size
<1>7. Len(got) = Size(got[1])
  <2>1. k + (Size(got[1]) - k) = Len(got)
    BY <1>5, <1>6 DEF Left
  <2>. QED BY <1>4, <2>1, UnitIs
<1>. QED BY <1>3, <1>5, <1>6, <1>7 DEF AllThere, SaysLength

(* What a clean call that parses finds: with the head of its answer and      *)
(* fields in it, those and the blank line, and the length they say.         *)
LEMMA CleanHead ==
  ASSUME IInv, LoopPuts, AnswerInv, CleanStream, clean, pc = "parse",
         got # <<>>, Len(got) >= 3, got[1].head.fields
  PROVE  /\ HeadStart(Text) = 1 /\ HeadEnd(Text, 2) = 2
         /\ Text[3].head = got[1].head
         /\ \A misread \in SUBSET Misreadable(Text, 1, 2) :
              HeaderOf(Text, 1, 2, misread).length =
                IF got[1].head.length = "absent" THEN NoLength ELSE got[1].n
<1> DEFINE h == got[1].head
<1>1. got \in Seq(Units) /\ OwnAnswer(got)
  BY UnreadTyped DEF CleanStream
<1>2. /\ got[1] \in Units /\ Len(got) \in 1 .. Size(got[1]) /\ Len(got) \in Nat
      /\ \A i \in 1 .. Len(got) : got[i].at = i /\ got[i].n = got[1].n /\ got[i].head = got[1].head
  BY <1>1, OwnAnswerIs, LenProperties
<1>3. /\ Text = resp /\ resp \in Seq(Units) /\ unpacked = 0
      /\ Len(got) <= Len(resp) /\ Len(resp) \in Nat
      /\ \A i \in 1 .. Len(got) : resp[i] = got[i]
      /\ From(resp, got)
  BY TextBegins DEF AnswerInv
<1>4. h \in HeadForms /\ HeadLen(h) = 3
  BY <1>2, UnitIs DEF HeadLen
<1>5. \A i \in 1 .. 3 : /\ resp[i].at = i /\ resp[i].n = got[1].n /\ resp[i].head = h
                        /\ i \in 1 .. Len(resp) /\ i # unpacked /\ ~ IsBody(resp[i])
  <2>. SUFFICES ASSUME NEW i \in 1 .. 3
                PROVE  /\ resp[i].at = i /\ resp[i].n = got[1].n /\ resp[i].head = h
                       /\ i \in 1 .. Len(resp) /\ i # unpacked /\ ~ IsBody(resp[i])
    OBVIOUS
  <2>1. i \in 1 .. Len(got) /\ i \in 1 .. Len(resp) /\ i # 0
    BY <1>2, <1>3
  <2>2. resp[i].at = i /\ resp[i].n = got[1].n /\ resp[i].head = h
    BY <1>2, <1>3, <2>1
  <2>3. ~ IsBody(resp[i])
    BY <1>4, <2>2 DEF IsBody
  <2>. QED BY <1>3, <2>1, <2>2, <2>3
<1>6. Alike(resp)
  <2>. SUFFICES ASSUME NEW i \in DOMAIN resp PROVE resp[i].head.eol = resp[1].head.eol
    BY DEF Alike
  <2>1. PICK j \in DOMAIN got : resp[i] = got[j]
    BY <1>3 DEF From
  <2>2. j \in 1 .. Len(got)
    BY <1>1
  <2>. QED BY <1>2, <1>5, <2>1, <2>2
<1>7. Len(Visible(resp)) \in Nat /\ Len(Visible(resp)) >= 3
  <2>1. /\ Len(Visible(resp)) \in 0 .. Len(resp)
        /\ \A i \in 1 .. Len(resp) :
             (\A j \in 1 .. i : j # unpacked /\ ~ IsBody(resp[j])) => i <= Len(Visible(resp))
    BY <1>3, VisibleIs
  <2>2. 3 \in 1 .. Len(resp)
    BY <1>5
  <2>3. 3 <= Len(Visible(resp))
    BY <1>5, <2>1, <2>2
  <2>. QED BY <1>3, <2>1, <2>3
<1>8. HeadStart(resp) = 1
  <2>1. 1 \in 1 .. Len(Visible(resp)) /\ EndsLine(resp[1])
    BY <1>5, <1>7 DEF EndsLine
  <2>2. HeadStart(resp) \in 0 .. Len(resp) /\ HeadStart(resp) # 0 /\ HeadStart(resp) <= 1
    BY <1>3, <1>6, <2>1, HeadStartIs
  <2>. QED BY <1>3, <2>2
<1>9. HeadEnd(resp, 2) = 2
  <2>1. EndsLine(resp[2]) /\ IsBlank(resp[2 + 1]) /\ 2 \in 2 .. Len(Visible(resp)) - 1
    BY <1>4, <1>5, <1>7 DEF EndsLine, IsBlank
  <2> DEFINE e == HeadEnd(resp, 2)
  <2>2. e \in Nat /\ e # 0 /\ e <= 2 /\ e \in 2 .. Len(Visible(resp)) - 1
    <3>1. e \in Nat /\ (e # 0 => e \in 2 .. Len(Visible(resp)) - 1)
      BY <1>3, HeadEndIs
    <3>2. \A i \in 2 .. Len(Visible(resp)) - 1 :
            EndsLine(resp[i]) /\ IsBlank(resp[i + 1]) => e # 0 /\ e <= i
      <4>. SUFFICES ASSUME NEW i \in 2 .. Len(Visible(resp)) - 1, EndsLine(resp[i]), IsBlank(resp[i + 1])
                    PROVE  e # 0 /\ e <= i
        OBVIOUS
      <4>1. 2 \in Nat \ {0}
        OBVIOUS
      <4>. QED BY <1>3, <1>6, <4>1, HeadEndIs
    <3>. HIDE DEF e
    <3>3. e # 0 /\ e <= 2
      BY <2>1, <3>2
    <3>. QED BY <3>1, <3>3
  <2>. HIDE DEF e
  <2>3. e = 2
    BY <1>7, <2>2
  <2>. QED BY <2>3 DEF e
<1>10. FieldsIn(resp, 1, 2) = {2}
  <2>1. IsFields(resp[2])
    BY <1>5 DEF IsFields
  <2>2. 1 + 1 .. 2 = {2}
    OBVIOUS
  <2>. QED BY <2>1, <2>2 DEF FieldsIn
<1>11. AtLineStart(resp, 1, 2)
  <2>1. 1 \in 1 .. 2 - 1 /\ \A i \in 1 + 1 .. 2 - 1 : FALSE
    OBVIOUS
  <2>. QED BY <2>1 DEF AtLineStart
<1>12. ASSUME NEW misread \in SUBSET Misreadable(resp, 1, 2)
       PROVE  HeaderOf(resp, 1, 2, misread).length = IF h.length = "absent" THEN NoLength ELSE got[1].n
  <2>1. <<2, "length">> \notin misread
    <3>1. \A m \in Misreadable(resp, 1, 2) : m = <<2, "type">>
      <4>1. {k \in FieldsIn(resp, 1, 2) : ~ AtLineStart(resp, 1, k)} = {}
        BY <1>10, <1>11
      <4>. QED BY <4>1 DEF Misreadable
    <3>2. <<2, "length">> # <<2, "type">>
      OBVIOUS
    <3>. QED BY <3>1, <3>2
  <2>2. {k \in FieldsIn(resp, 1, 2) : <<k, "length">> \notin misread} = {2}
    BY <1>10, <2>1
  <2> DEFINE L == {k \in {2} : resp[k].head.length # "absent"}
  <2>3. HeaderOf(resp, 1, 2, misread).length = IF FirstOf[L] = 0 THEN NoLength ELSE resp[FirstOf[L]].n
    BY <2>2 DEF HeaderOf
  <2>4. resp[2].head.length = h.length /\ resp[2].n = got[1].n
    BY <1>5
  <2>5. CASE h.length = "absent"
    <3>1. L = {}
      BY <2>4, <2>5
    <3>2. FirstOf[L] = 0
      BY <3>1, FirstIs
    <3>. QED BY <2>3, <2>5, <3>2
  <2>6. CASE h.length # "absent"
    <3>1. L = {2}
      BY <2>4, <2>6
    <3>2. FirstOf[L] = 2
      BY <3>1, FirstIs
    <3>. QED BY <2>3, <2>4, <2>6, <3>2
  <2>. QED BY <2>5, <2>6
<1>13. resp[3].head = h
  BY <1>5
<1>. QED BY <1>3, <1>8, <1>9, <1>12, <1>13

(* What such a call hands out.                                             *)
LEMMA ParseFinds ==
  ASSUME IInv, LoopPuts, AnswerInv, CleanStream, Parse, clean,
         got # <<>>, Len(got) >= 3, got[1].head.fields
  PROVE  /\ result' = "OK" /\ content' = 4 - Early(got[1].head)
         /\ header'.length = IF got[1].head.length = "absent" THEN NoLength ELSE got[1].n
<1>1. /\ HeadStart(Text) = 1 /\ HeadEnd(Text, 2) = 2 /\ Text[3].head = got[1].head
      /\ \A misread \in SUBSET Misreadable(Text, 1, 2) :
           HeaderOf(Text, 1, 2, misread).length =
             IF got[1].head.length = "absent" THEN NoLength ELSE got[1].n
  BY CleanHead DEF Parse
<1>2. HeadEnd(Text, HeadStart(Text) + 1) = 2
  BY <1>1
<1>3. /\ result' = "OK" /\ content' = BodyStart(Text, 2)
      /\ \E misread \in SUBSET Misreadable(Text, 1, 2) : header' = HeaderOf(Text, 1, 2, misread)
  BY <1>1, <1>2 DEF Parse, ParseResp
<1>4. got[1].head.eol \in {"crlf", "lf"}
  <2>1. got[1] \in Units
    BY OwnAnswerIs, UnreadTyped DEF CleanStream
  <2>. QED BY <2>1, UnitIs DEF HeadForms
<1>5. BodyStart(Text, 2) = 4 - Early(got[1].head)
  BY <1>1, <1>4 DEF BodyStart, Early
<1>. QED BY <1>1, <1>3, <1>5

LEMMA ParseContent ==
  ASSUME IInv, LoopPuts, AnswerInv, CleanStream, Parse
  PROVE  ContentIsBody'
<1> DEFINE h == got[1].head
<1>. SUFFICES ASSUME clean, result' = "OK", ended = "complete"
              PROVE  /\ (RespContentLength)' = header'.length + Early(h)
                     /\ \A i \in 1 .. (RespContentLength)' :
                          /\ resp[content' + i - 1].req = req
                          /\ resp[content' + i - 1].at = HeadLen(h) - Early(h) + i
  BY DEF Parse, ContentIsBody, history
<1>1. pc = "parse" /\ AllThere(got) /\ OwnAnswer(got) /\ got \in Seq(Units)
  BY UnreadTyped DEF Parse, CleanStream
<1>2. /\ got # <<>> /\ Len(got) = Size(got[1]) /\ h.length = "exact" /\ got[1] \in Units
      /\ \A i \in 1 .. Len(got) : got[i].req = req /\ got[i].at = i
  BY <1>1, OwnAnswerIs DEF AllThere
<1>3. /\ h \in Heads /\ h \in HeadForms /\ h.fields /\ HeadLen(h) = 3
      /\ got[1].n \in Nat /\ Len(got) = 3 + got[1].n /\ Len(got) >= 3
  <2>1. h \in Heads /\ h \in HeadForms /\ got[1].n \in Nat
    BY <1>2, UnitIs
  <2>2. h.fields
    <3>1. h.fields \/ (h.length = "absent" /\ ~ h.type)
      BY <2>1, HttpAssumption
    <3>. QED BY <1>2, <3>1
  <2>3. HeadLen(h) = 3
    BY <2>2 DEF HeadLen
  <2>. QED BY <1>2, <2>1, <2>2, <2>3 DEF Size
<1>4. resp = got
  BY <1>1, <1>2, TextBegins DEF AnswerInv
<1>5. content' = 4 - Early(h) /\ header'.length = got[1].n /\ resp' = got
  <2>1. content' = 4 - Early(h)
    BY <1>2, <1>3, ParseFinds
  <2>2. header'.length = IF h.length = "absent" THEN NoLength ELSE got[1].n
    BY <1>2, <1>3, ParseFinds
  <2>. QED BY <1>2, <1>4, <2>1, <2>2 DEF Parse
<1>6. Early(h) \in {0, 2}
  BY DEF Early
<1>. HIDE DEF h
<1>7. (RespContentLength)' = got[1].n + Early(h)
  <2>1. (RespContentLength)' = IF content' = 0 THEN 0 ELSE Len(got) - content' + 1
    BY <1>5 DEF RespContentLength
  <2>. QED BY <1>3, <1>5, <1>6, <2>1
<1>8. ASSUME NEW i \in 1 .. (RespContentLength)'
      PROVE  /\ resp[content' + i - 1].req = req
             /\ resp[content' + i - 1].at = HeadLen(h) - Early(h) + i
  <2>1. content' + i - 1 = 3 - Early(h) + i /\ 3 - Early(h) + i \in 1 .. Len(got)
    BY <1>3, <1>5, <1>6, <1>7
  <2>. QED BY <1>2, <1>3, <1>4, <2>1
<1>. QED BY <1>5, <1>7, <1>8

LEMMA ParseUndefined ==
  ASSUME IInv, LoopPuts, AnswerInv, CleanStream, Parse
  PROVE  UndefinedOnlyWithoutHead'
<1>. SUFFICES ASSUME clean, pc' = "undefined"
              PROVE  /\ ended \in {"closed", "timeout"}
                     /\ \A i \in DOMAIN got : IsBlank(got[i]) => ~ got[i].head.fields
  BY DEF Parse, UndefinedOnlyWithoutHead, history
<1>1. pc = "parse" /\ result' # "OK"
  BY DEF Parse, ParseResp
<1>2. got \in Seq(Units) /\ OwnAnswer(got)
  BY UnreadTyped DEF CleanStream
<1>3. ~ (got # <<>> /\ Len(got) >= 3 /\ got[1].head.fields)
  BY <1>1, ParseFinds
<1>4. ended # "complete"
  <2>. SUFFICES ASSUME ended = "complete" PROVE FALSE
    OBVIOUS
  <2>1. got # <<>> /\ Len(got) = Size(got[1]) /\ got[1].head.length = "exact"
    BY <1>1 DEF CleanStream, AllThere
  <2>2. got[1] \in Units
    BY <1>2, <2>1, OwnAnswerIs
  <2>3. got[1].head \in Heads /\ got[1].n \in Nat
    BY <2>2, UnitIs
  <2>4. got[1].head.fields
    BY <2>1, <2>3, HttpAssumption
  <2>5. Len(got) >= 3
    BY <2>1, <2>3, <2>4 DEF Size, HeadLen
  <2>. QED BY <1>3, <2>1, <2>4, <2>5
<1>5. ended \in {"closed", "timeout"}
  <2>1. ended # "no"
    BY <1>1 DEF AnswerInv, ReadInv
  <2>. QED BY <1>4, <2>1 DEF IInv, HistoryTyped
<1>6. ASSUME NEW i \in DOMAIN got, IsBlank(got[i]), got[i].head.fields
      PROVE  FALSE
  <2>1. got # <<>> /\ Len(got) \in Nat /\ i \in 1 .. Len(got)
    BY <1>2
  <2>2. got[i].at = i /\ got[i].head = got[1].head
    BY <1>2, <2>1, OwnAnswerIs
  <2>3. i = 3
    BY <1>6, <2>2 DEF IsBlank, HeadLen
  <2>. QED BY <1>3, <1>6, <2>1, <2>2, <2>3
<1>. QED BY <1>5, <1>6

LEMMA ParseAnswersThisCall ==
  ASSUME IInv, LoopPuts, AnswerInv, CleanStream, Parse
  PROVE  AnswersThisCall'
<1>. SUFFICES ASSUME clean
              PROVE  IF got = <<>> THEN ended = "closed"
                     ELSE code' = req \/ (got[1].head.version = "other" /\ (kind = "request" => code' = 0))
  BY DEF Parse, AnswersThisCall, history
<1>1. pc = "parse" /\ req # 0
  BY DEF Parse, IInv, Numbered
<1>2. CASE got = <<>>
  <2>1. ended = "closed"
    BY <1>1, <1>2 DEF AnswerInv, ReadInv
  <2>. QED BY <1>2, <2>1
<1>3. CASE got # <<>>
  <2>1. got[1] \in Units /\ got[1].at = 1 /\ got[1].req = req
    <3>1. got \in Seq(Units) /\ OwnAnswer(got)
      BY UnreadTyped DEF CleanStream
    <3>2. Len(got) \in Nat \ {0}
      BY <1>3, <3>1, EmptySeq
    <3>. QED BY <1>3, <3>1, <3>2, OwnAnswerIs
  <2>2. got[1].head.version \in {"1.1", "other"} /\ IsStatus(got[1])
    BY <2>1, UnitIs DEF HeadForms, IsStatus
  <2> DEFINE status == IF IsStatus(got[1]) /\ got[1].head.version = "1.1" THEN got[1].req ELSE 0
  <2>3. code' = IF status = 0 THEN code ELSE status
    BY <1>3, ParseReports DEF AnswerInv
  <2>4. kind = "request" => code = 0
    BY <1>1 DEF AnswerInv, ReadInv
  <2>. QED BY <1>1, <1>3, <2>1, <2>2, <2>3, <2>4
<1>. QED BY <1>2, <1>3

-----------------------------------------------------------------------------
(* The steps.                                                              *)

(* One after which the call has received as much and no more is read.       *)
LEMMA CleanStreamStands ==
  ASSUME IInv, CleanStream,
         UNCHANGED <<got, down, emitting, answered, req, clean>>,
         InCall' => InCall,
         clean /\ pc' = "parse" /\ ended' = "complete" => AllThere(got)
  PROVE  CleanStream'
<1>1. InCall' => Stream' = Stream
  BY DEF Stream, Unread
<1>2. ASSUME clean' PROVE OwnAnswer(got)' /\ (pc' = "parse" /\ ended' = "complete" => AllThere(got)')
  BY <1>2 DEF CleanStream, OwnAnswer, AllThere
<1>3. ASSUME clean', InCall'
      PROVE  /\ OwnAnswer(Stream)'
             /\ answered' >= req' - 1
             /\ answered' < req' => Stream' = <<>>
  <2>1. OwnAnswer(Stream) /\ answered >= req - 1 /\ (answered < req => Stream = <<>>)
    BY <1>3 DEF CleanStream
  <2>2. Stream' = Stream
    BY <1>1, <1>3
  <2>. QED BY <2>1, <2>2 DEF OwnAnswer
<1>. QED BY <1>2, <1>3 DEF CleanStream

LEMMA PeerKeepsBody ==
  ASSUME IInv, AnswerInv, BodyInv, Peer
  PROVE  BodyInv'
<1>1. UNCHANGED <<callVars, respVars, history, up>>
  BY DEF Peer, Answer, Deliver, Close
<1>2. AnswersThisCall' /\ ContentIsBody' /\ UndefinedOnlyWithoutHead'
  BY <1>1 DEF BodyInv, AnswersThisCall, ContentIsBody, RespContentLength, UndefinedOnlyWithoutHead,
              callVars, respVars, history
<1>3. ASSUME clean'
      PROVE  OwnAnswer(got)' /\ (pc' = "parse" /\ ended' = "complete" => AllThere(got)')
  BY <1>1, <1>3 DEF BodyInv, CleanStream, OwnAnswer, AllThere, callVars, history
<1>4. Stream \in Seq(Units) /\ emitting \in Seq(Units) /\ req \in 0 .. MaxRequests /\ answered \in 0 .. MaxRequests
  BY UnreadTyped DEF IInv, CallTyped, PeerTyped
<1>5. ASSUME clean', InCall'
      PROVE  /\ OwnAnswer(Stream')
             /\ answered' >= req - 1
             /\ answered' < req => Stream' = <<>>
  <2>1. OwnAnswer(Stream) /\ answered >= req - 1 /\ (answered < req => Stream = <<>>)
    BY <1>1, <1>5 DEF BodyInv, CleanStream, InCall, callVars, history
  <2>2. ASSUME NEW r \in 1 .. MaxRequests, NEW n \in BodyLengths, NEW h \in Heads, Answer(r, n, h)
        PROVE  /\ OwnAnswer(Stream')
               /\ answered' >= req - 1
               /\ answered' < req => Stream' = <<>>
    <3>1. r <= req /\ answered < r /\ answered' = r
      BY <2>2 DEF Answer, AnswerInv, NoneAhead
    <3>2. r = req /\ Stream = <<>>
      BY <1>4, <2>1, <3>1
    <3>3. Stream' = Response(r, n, h)
      BY <2>2, <3>2, AnswerAddsResponse, ResponseIs, ConcatEmptySeq
    <3>4. OwnAnswer(Response(r, n, h))
      BY <3>2, ResponseIsOwn
    <3>. QED BY <1>4, <3>1, <3>2, <3>3, <3>4
  <2>3. CASE Deliver
    <3>1. Stream' = Stream /\ answered' = answered
      BY <1>1, <2>3, DeliverKeepsUnread DEF Stream, InCall, callVars, history, Deliver
    <3>. QED BY <2>1, <3>1
  <2>4. CASE Close
    <3>1. Stream' \in Seq(Units) /\ Stream = Stream' \o emitting /\ answered' = answered
      BY <2>4, CloseCutsStream DEF Close
    <3>2. OwnAnswer(Stream')
      BY <1>4, <2>1, <3>1, OwnAnswerPrefix
    <3>3. Stream = <<>> => Stream' = <<>>
      <4>1. Stream' \o emitting = <<>> => Stream' = <<>>
        BY <1>4, <3>1, ConcatEqualIffEmpty
      <4>. QED BY <3>1, <4>1
    <3>. QED BY <2>1, <3>1, <3>2, <3>3
  <2>. QED BY <2>2, <2>3, <2>4 DEF Peer
<1>6. req' = req
  BY <1>1 DEF callVars
<1>7. CleanStream'
  BY <1>3, <1>5, <1>6 DEF CleanStream, OwnAnswer
<1>. QED BY <1>2, <1>7 DEF BodyInv

(* A call that begins clean has an empty stream.                            *)
LEMMA CallKeepsBody ==
  ASSUME IInv, BodyInv, Request \/ SendFile
  PROVE  BodyInv'
<1>1. /\ pc' = "send" /\ req' = req + 1 /\ result' = "none" /\ got' = <<>>
      /\ clean' => down = <<>> /\ emitting = <<>> /\ answered = req
      /\ UNCHANGED <<down, emitting, answered>>
  BY DEF Request, SendFile, NextCall, peerVars
<1>2. clean' => Stream' = <<>>
  BY <1>1 DEF Stream, Unread, InCall
<1>3. CleanStream'
  <2>1. OwnAnswer(got)'
    BY <1>1 DEF OwnAnswer
  <2>2. clean' => OwnAnswer(Stream)'
    BY <1>2 DEF OwnAnswer
  <2>3. clean' => answered' >= req' - 1
    BY <1>1 DEF IInv, CallTyped
  <2>. QED BY <1>1, <1>2, <2>1, <2>2, <2>3 DEF CleanStream
<1>. QED BY <1>1, <1>3 DEF BodyInv, AnswersThisCall, ContentIsBody, UndefinedOnlyWithoutHead

LEMMA ReceiveKeepsBody ==
  ASSUME IInv, LoopPuts, BodyInv, Receive
  PROVE  BodyInv'
<1>1. /\ pc \in {"first", "loop"} /\ pc' = "size"
      /\ UNCHANGED <<req, clean, result, answered>>
  BY DEF Receive, peerVars
<1>2. clean => result = "none"
  BY <1>1 DEF LoopPuts
<1>3. PICK t \in Seq(Units) : Stream = got' \o t
  BY ReceiveKeepsStream
<1>4. Stream' = Stream /\ got' \in Seq(Units)
  BY ReceiveKeepsStream, ReceiveTyped DEF IInv, TextsTyped
<1>5. ASSUME clean
      PROVE  /\ OwnAnswer(got') /\ OwnAnswer(Stream')
             /\ answered >= req - 1 /\ (answered < req => Stream' = <<>>)
  <2>1. OwnAnswer(Stream) /\ answered >= req - 1 /\ (answered < req => Stream = <<>>)
    BY <1>1, <1>5 DEF BodyInv, CleanStream, InCall
  <2>2. OwnAnswer(got')
    BY <1>3, <1>4, <2>1, OwnAnswerPrefix
  <2>. QED BY <1>4, <2>1, <2>2
<1>6. CleanStream'
  BY <1>1, <1>5 DEF CleanStream, OwnAnswer
<1>. QED BY <1>1, <1>2, <1>6 DEF BodyInv, AnswersThisCall, ContentIsBody, UndefinedOnlyWithoutHead

(* Whatever the step, and together with what else is invariant.              *)
LEMMA BodyKept ==
  ASSUME IInv, LoopPuts, AnswerInv, BodyInv, [Next]_vars
  PROVE  BodyInv'
<1>1. ASSUME UNCHANGED <<kind, got, down, emitting, answered, req, clean, resp, content, header, code>>,
             InCall' => InCall,
             clean /\ pc' = "parse" /\ ended' = "complete" => AllThere(got),
             pc' # "undefined" \/ (UNCHANGED <<pc, ended>>),
             clean => result' # "OK" \/ UNCHANGED <<result, ended>>
      PROVE  BodyInv'
  <2>1. CleanStream'
    BY <1>1, CleanStreamStands DEF BodyInv
  <2>2. AnswersThisCall' /\ ContentIsBody' /\ UndefinedOnlyWithoutHead'
    BY <1>1 DEF BodyInv, AnswersThisCall, ContentIsBody, RespContentLength, UndefinedOnlyWithoutHead
  <2>. QED BY <1>1, <2>1, <2>2 DEF BodyInv
<1>2. CASE UNCHANGED vars
  <2>1. clean /\ pc' = "parse" /\ ended' = "complete" => AllThere(got)
    BY <1>2 DEF vars, callVars, history, BodyInv, CleanStream
  <2>. QED BY <1>1, <1>2, <2>1 DEF vars, callVars, respVars, peerVars, history, InCall, BodyInv
<1>3. CASE Destroy
  BY <1>1, <1>3 DEF Destroy, respVars, peerVars, history, InCall
<1>4. CASE Create
  <2>1. pc' = "idle" /\ result' = "none" /\ UNCHANGED <<got, clean, req>>
    BY <1>4 DEF Create, history
  <2>2. CleanStream'
    BY <2>1 DEF BodyInv, CleanStream, OwnAnswer, InCall
  <2>. QED BY <2>1, <2>2 DEF BodyInv, AnswersThisCall, ContentIsBody, UndefinedOnlyWithoutHead
<1>5. ASSUME NEW k \in 1 .. WriteChunk, SendSome(k) PROVE BodyInv'
  BY <1>1, <1>5 DEF SendSome, InSendLoop, respVars, history, InCall
<1>6. CASE SendError
  BY <1>1, <1>6 DEF SendError, InSendLoop, respVars, peerVars, InCall
<1>7. CASE SendReturns
  BY <1>1, <1>7 DEF SendReturns, peerVars, history, InCall
<1>8. CASE TestRemaining
  <2>1. clean /\ pc' = "parse" /\ ended' = "complete" => AllThere(got)
    BY <1>8, CompleteIsAllThere DEF BodyInv
  <2>2. clean => result' = "none"
    BY <1>8 DEF TestRemaining, LoopPuts, respVars
  <2>. QED BY <1>1, <1>8, <2>1, <2>2 DEF TestRemaining, respVars, peerVars, InCall
<1>9. CASE ReceiveEnd
  <2>1. clean => result' = "none"
    BY <1>9 DEF ReceiveEnd, LoopPuts, respVars
  <2>. QED BY <1>1, <1>9, <2>1 DEF ReceiveEnd, respVars, peerVars, InCall
<1>10. CASE WaitFirstTimeout
  BY <1>1, <1>10 DEF WaitFirstTimeout, peerVars, InCall
<1>11. CASE WaitNextTimeout
  <2>1. /\ pc = "loop" /\ pc' = "parse" /\ ended' = "timeout"
        /\ UNCHANGED <<got, down, emitting, answered, req, clean, result>>
    BY <1>11 DEF WaitNextTimeout, peerVars
  <2>2. clean => result = "none"
    BY <1>11 DEF WaitNextTimeout, LoopPuts
  <2>3. CleanStream'
    BY <2>1, CleanStreamStands DEF InCall, BodyInv
  <2>. QED BY <2>1, <2>2, <2>3 DEF BodyInv, AnswersThisCall, ContentIsBody, UndefinedOnlyWithoutHead
<1>12. CASE Parse
  <2>1. /\ pc' \in {"idle", "undefined"}
        /\ UNCHANGED <<got, down, emitting, answered, req, clean>>
    BY <1>12 DEF Parse, ParseResp, peerVars, history
  <2>2. CleanStream'
    BY <2>1, CleanStreamStands DEF InCall, BodyInv
  <2>. QED BY <1>12, <2>1, <2>2, ParseContent, ParseUndefined, ParseAnswersThisCall DEF BodyInv
<1>. QED BY PeerKeepsBody, CallKeepsBody, ReceiveKeepsBody, <1>2, <1>3, <1>4, <1>5, <1>6, <1>7, <1>8,
            <1>9, <1>10, <1>11, <1>12 DEF Next, Library, Application

(* A clean call receives a beginning of the answer to itself and nothing     *)
(* else, in every order of the peer's, the network's and the clock's steps. *)
THEOREM CleanCallsReceiveTheirAnswer == Spec => []BodyInv
<1>1. Init => BodyInv
  BY DEF Init, CleanStream, OwnAnswer, InCall, BodyInv, AnswersThisCall, ContentIsBody,
         UndefinedOnlyWithoutHead
<1>2. IInv /\ (LoopPuts /\ AnswerInv) /\ BodyInv /\ [Next]_vars => BodyInv'
  BY BodyKept
<1>. QED BY <1>1, <1>2, Invariance, AnswerInvariance, PTL DEF Spec

(* In every order of the peer's, the network's and the clock's steps, a call *)
(* that began with nothing owed and returns OK reports the status of its own *)
(* answer, if that is of HTTP/1.1, and received nothing only when the peer   *)
(* closed (http_transaction.c:137-160 and 247-287).                         *)
THEOREM AnswersThisCallInvariant == Spec => []AnswersThisCall
<1>1. BodyInv => AnswersThisCall
  BY DEF BodyInv
<1>. QED BY <1>1, CleanCallsReceiveTheirAnswer, PTL

(* What get_remaining_size takes for the end of the answer is its end, and   *)
(* resp_content the body the head announces, whole, with nothing behind it;  *)
(* behind a head whose lines end in LF the blank line comes with it, and     *)
(* makes it two longer (http_transaction.c:151-202 and 204-245).            *)
THEOREM ContentIsBodyInvariant == Spec => []ContentIsBody
<1>1. BodyInv => ContentIsBody
  BY DEF BodyInv
<1>. QED BY <1>1, CleanCallsReceiveTheirAnswer, PTL

(* parse_resp goes on without a body_start only when the peer closed or fell *)
(* silent, and either the head was not there or it had no fields            *)
(* (http_transaction.c:172-189).                                            *)
THEOREM UndefinedOnlyWithoutHeadInvariant == Spec => []UndefinedOnlyWithoutHead
<1>1. BodyInv => UndefinedOnlyWithoutHead
  BY DEF BodyInv
<1>. QED BY <1>1, CleanCallsReceiveTheirAnswer, PTL

-----------------------------------------------------------------------------
(* Where a clean call that parses its answer finds the content, and what     *)
(* length it takes for it: also when the read loop missed the length and    *)
(* put its last chunk twice.                                               *)
HeadFound ==
  clean /\ result = "OK" /\ got # <<>> /\ Len(got) >= 3 /\ got[1].head.fields =>
    /\ content = 4 - Early(got[1].head)
    /\ header.length = IF got[1].head.length = "absent" THEN NoLength ELSE got[1].n

LEMMA HeadFoundKept ==
  ASSUME IInv, LoopPuts, AnswerInv, BodyInv, HeadFound, [Next]_vars
  PROVE  HeadFound'
<1>1. ASSUME result' = "OK" => UNCHANGED <<got, clean, result, content, header>>
      PROVE  HeadFound'
  BY <1>1 DEF HeadFound
<1>2. CASE UNCHANGED vars \/ Peer
  BY <1>1, <1>2 DEF vars, Peer, Answer, Deliver, Close, respVars, history
<1>3. CASE Destroy \/ Create
  BY <1>1, <1>3 DEF Destroy, Create, respVars, history
<1>4. CASE Request \/ SendFile
  BY <1>1, <1>4 DEF Request, SendFile, NextCall
<1>5. ASSUME NEW k \in 1 .. WriteChunk, SendSome(k) PROVE HeadFound'
  BY <1>1, <1>5 DEF SendSome, respVars, history
<1>6. CASE SendError \/ SendReturns
  BY <1>1, <1>6 DEF SendError, SendReturns, respVars, history
<1>7. CASE Receive
  <2>1. clean' => result' # "OK"
    BY <1>7 DEF Receive, LoopPuts
  <2>. QED BY <2>1 DEF HeadFound
<1>8. CASE TestRemaining \/ ReceiveEnd
  BY <1>1, <1>8 DEF TestRemaining, ReceiveEnd, respVars
<1>9. CASE WaitFirstTimeout \/ WaitNextTimeout
  BY <1>1, <1>9 DEF WaitFirstTimeout, WaitNextTimeout
<1>10. CASE Parse
  <2>1. UNCHANGED <<got, clean>>
    BY <1>10 DEF Parse, history
  <2>. QED BY <1>10, <2>1, ParseFinds DEF HeadFound, BodyInv
<1>. QED BY <1>2, <1>3, <1>4, <1>5, <1>6, <1>7, <1>8, <1>9, <1>10 DEF Next, Library, Application

LEMMA HeadFoundInvariance == Spec => []HeadFound
<1>1. Init => HeadFound
  BY DEF Init, HeadFound
<1>2. IInv /\ (LoopPuts /\ AnswerInv) /\ BodyInv /\ HeadFound /\ [Next]_vars => HeadFound'
  BY HeadFoundKept
<1>. QED BY <1>1, <1>2, Invariance, AnswerInvariance, CleanCallsReceiveTheirAnswer, PTL DEF Spec

-----------------------------------------------------------------------------
(* MmsTransaction over HttpTransaction.                                    *)

LEMMA EveryStepIsHttp ==
  ASSUME [TransactionNext]_transactionVars
  PROVE  [Next]_vars
<1>1. CASE UNCHANGED transactionVars
  BY <1>1 DEF transactionVars
<1>2. CASE TransactionLibrary
  BY <1>2 DEF TransactionLibrary, HttpStep, RequestFailed, ConfRefused, ParseSendConf,
              ParseRetrieveConf, Next
<1>3. CASE TransactionApplication
  BY <1>3 DEF TransactionApplication, TransactionCreate, TransactionDestroy, Send,
              SendFileUnread, TransactionReceive, Begin, Next, Application
<1>4. CASE TransactionPeer
  BY <1>4 DEF TransactionPeer, PeerAnswers, NetworkStep, Next, Peer
<1>. QED BY <1>1, <1>2, <1>3, <1>4 DEF TransactionNext

(* The calls of mms_transaction.c use those of http_transaction.c as that    *)
(* module lets an application use them: what is proved of the one holds     *)
(* under the other.                                                        *)
THEOREM TransactionsAreHttp == TransactionSpec => Spec
<1>1. TransactionInit => Init
  BY DEF TransactionInit
<1>2. [TransactionNext]_transactionVars => [Next]_vars
  BY EveryStepIsHttp
<1>. QED BY <1>1, <1>2, PTL DEF TransactionSpec, Spec

(* Nothing but a call of its own has the transaction's library steps, and    *)
(* every call of it is a request.                                          *)
CallInv ==
  /\ kind = "request" /\ busy \in BOOLEAN
  /\ busy => pc # "none" /\ returned = "none"
  /\ ~busy => pc \in {"none", "idle"}

LEMMA LibraryRuns ==
  ASSUME Library
  PROVE  pc \in {"send", "first", "size", "loop", "parse"} /\ pc' # "none" /\ kind' = kind
<1>1. ASSUME NEW k \in 1 .. WriteChunk, SendSome(k)
      PROVE  pc \in {"send", "first", "size", "loop", "parse"} /\ pc' # "none" /\ kind' = kind
  BY <1>1 DEF SendSome, InSendLoop
<1>2. CASE SendError \/ SendReturns
  BY <1>2 DEF SendError, SendReturns, InSendLoop
<1>3. CASE Receive \/ TestRemaining \/ ReceiveEnd
  BY <1>3 DEF Receive, TestRemaining, ReceiveEnd
<1>4. CASE WaitFirstTimeout \/ WaitNextTimeout \/ Parse
  BY <1>4 DEF WaitFirstTimeout, WaitNextTimeout, Parse, ParseResp
<1>. QED BY <1>1, <1>2, <1>3, <1>4 DEF Library

LEMMA CallKept ==
  ASSUME CallInv, [TransactionNext]_transactionVars
  PROVE  CallInv'
<1>1. CASE UNCHANGED transactionVars
  BY <1>1 DEF transactionVars, vars, callVars, mine, CallInv
<1>2. CASE HttpStep
  BY <1>2, LibraryRuns DEF HttpStep, mine, CallInv
<1>3. CASE RequestFailed \/ ConfRefused \/ ParseSendConf \/ ParseRetrieveConf
  BY <1>3 DEF RequestFailed, ConfRefused, ParseSendConf, ParseRetrieveConf, Returned, CallInv,
              vars, callVars
<1>4. CASE TransactionCreate \/ TransactionDestroy
  BY <1>4 DEF TransactionCreate, TransactionDestroy, Create, Destroy, CallInv
<1>5. CASE SendFileUnread
  BY <1>5 DEF SendFileUnread, CallInv, vars, callVars
<1>6. CASE Send \/ TransactionReceive
  BY <1>6 DEF Send, TransactionReceive, Begin, Request, NextCall, CallInv
<1>7. CASE TransactionPeer
  BY <1>7 DEF TransactionPeer, PeerAnswers, NetworkStep, Answer, Deliver, Close, callVars, mine, CallInv
<1>. QED BY <1>1, <1>2, <1>3, <1>4, <1>5, <1>6, <1>7
         DEF TransactionNext, TransactionLibrary, TransactionApplication

-----------------------------------------------------------------------------
(* The message and the memory its parts point into.                        *)

(* While the read loop runs, bytes have come since a message was handed out. *)
ReadSince == pc \in {"size", "loop"} => read

(* Bytes come in Receive, which says so, and are put by it and by a later    *)
(* wait that gives up in the read loop.                                    *)
LEMMA MemoryStays ==
  ASSUME IInv, ReadSince, Library, KeepMemory
  PROVE  /\ read' \/ memory' = memory
         /\ pc' \in {"size", "loop"} => read'
         /\ read => read'
<1>1. ASSUME UNCHANGED <<resp, got>>, pc' \in {"size", "loop"} => pc \in {"size", "loop"}
      PROVE  /\ read' \/ memory' = memory
             /\ pc' \in {"size", "loop"} => read'
             /\ read => read'
  BY <1>1 DEF KeepMemory, ReadSince
<1>2. ASSUME NEW k \in 1 .. WriteChunk, SendSome(k)
      PROVE  UNCHANGED <<resp, got>> /\ pc' \notin {"size", "loop"}
  BY <1>2 DEF SendSome, InSendLoop, respVars, history
<1>3. CASE SendError \/ SendReturns
  <2>1. UNCHANGED <<resp, got>> /\ pc' \notin {"size", "loop"}
    BY <1>3 DEF SendError, SendReturns, InSendLoop, respVars, history
  <2>. QED BY <1>1, <2>1
<1>4. CASE Receive
  <2> DEFINE n == IF Len(down) < ReadChunk THEN Len(down) ELSE ReadChunk
             units == SubSeq(down, 1, n)
  <2>1. down \in Seq(Units) /\ down # <<>> /\ got \in Seq(Units)
    BY <1>4 DEF Receive, IInv, TextsTyped
  <2>2. n \in Nat /\ n > 0 /\ n <= Len(down)
    <3>1. Len(down) \in Nat /\ Len(down) > 0
      BY <2>1, EmptySeq
    <3>. QED BY <3>1, HttpAssumption
  <2>3. units \in Seq(Units) /\ Len(units) = n
    <3>. HIDE DEF n
    <3>. QED BY <2>1, <2>2
  <2>4. got' = got \o units /\ pc' = "size"
    BY <1>4 DEF Receive
  <2>. HIDE DEF n, units
  <2>5. Len(got \o units) = Len(got) + n /\ Len(got) \in Nat
    BY <2>1, <2>3
  <2>6. got' # got /\ got' # <<>>
    <3>1. Len(got') # Len(got) /\ Len(got') # 0
      BY <2>2, <2>4, <2>5
    <3>. QED BY <3>1
  <2>. QED BY <2>4, <2>6 DEF KeepMemory
<1>5. CASE TestRemaining \/ ReceiveEnd \/ WaitFirstTimeout
  <2>1. UNCHANGED <<resp, got>> /\ (pc' \in {"size", "loop"} => pc \in {"size", "loop"})
    BY <1>5 DEF TestRemaining, ReceiveEnd, WaitFirstTimeout, respVars
  <2>. QED BY <1>1, <2>1
<1>6. CASE WaitNextTimeout
  <2>1. pc = "loop" /\ pc' = "parse" /\ UNCHANGED got
    BY <1>6 DEF WaitNextTimeout
  <2>. QED BY <2>1 DEF KeepMemory, ReadSince
<1>7. CASE Parse
  <2>1. UNCHANGED <<resp, got>> /\ pc' \notin {"size", "loop"}
    BY <1>7 DEF Parse, ParseResp, history
  <2>. QED BY <1>1, <2>1
<1>. QED BY <1>1, <1>2, <1>3, <1>4, <1>5, <1>6, <1>7 DEF Library

(* What is announced is a length when it is positive.                       *)
LEMMA LengthIsNumber ==
  ASSUME IInv, IsMms
  PROVE  GetRespContentLength \in Nat \ {0} /\ content \in Nat
<1>1. content \in Nat /\ header.length \in Nat \cup {NoLength} /\ Len(resp) \in Nat
  BY DEF IInv, RespTyped, TextsTyped
<1>2. RespContentLength \in Int
  BY <1>1 DEF RespContentLength
<1>3. GetRespContentLength \in Int
  BY <1>1, <1>2 DEF GetRespContentLength, NoLength
<1>. QED BY <1>1, <1>3 DEF IsMms

(* A unit of the memory.                                                    *)
At(i) == IF i \in DOMAIN memory THEN memory[i] ELSE Garbage

LEMMA PduIs == Pdu = [i \in 1 .. GetRespContentLength |-> At(content + i - 1)]
BY DEF Pdu, InputBuffer, At

(* The message handed out is the PDU.                                       *)
LEMMA MessageIsPdu ==
  ASSUME IInv, ParseRetrieveConf
  PROVE  Message' = Pdu
<1> DEFINE L == GetRespContentLength
           rest == [i \in 1 .. L - 1 |-> At(content + i)]
<1>1. IsMms /\ L \in Nat \ {0} /\ content \in Nat
  BY LengthIsNumber DEF ParseRetrieveConf
<1>. HIDE DEF L
<1>2. Pdu = [i \in 1 .. L |-> At(content + i - 1)]
  BY PduIs DEF L
<1>3. Len(Pdu) = L
  BY <1>1, <1>2
<1>4. recvHeader' = <<At(content)>>
  <2>1. recvHeader' = [i \in 1 .. 1 |-> At(content + i - 1)]
    BY DEF ParseRetrieveConf, InputBuffer, At
  <2>2. \A i \in 1 .. 1 : content + i - 1 = content
    BY <1>1
  <2>3. recvHeader' = [i \in 1 .. 1 |-> At(content)]
    BY <2>1, <2>2
  <2>. QED BY <2>3
<1>5. recvData' = [i \in 1 .. L - 1 |-> content + i]
  BY <1>3 DEF ParseRetrieveConf
<1>6. [i \in DOMAIN recvData |-> InputBuffer(recvData[i], 1)[1]]' = rest
  <2>1. memory' = memory
    BY DEF ParseRetrieveConf
  <2>2. DOMAIN recvData' = 1 .. L - 1
    BY <1>5
  <2>3. \A i \in 1 .. L - 1 : (InputBuffer(recvData[i], 1)[1])' = At(content + i)
    <3>. SUFFICES ASSUME NEW i \in 1 .. L - 1
                  PROVE  [j \in 1 .. 1 |-> At(recvData'[i] + j - 1)][1] = At(content + i)
      BY <2>1 DEF InputBuffer, At
    <3>1. recvData'[i] = content + i
      BY <1>5
    <3>2. content + i + 1 - 1 = content + i
      BY <1>1
    <3>. QED BY <3>1, <3>2
  <2>. QED BY <2>1, <2>2, <2>3
<1>7. Message' = <<At(content)>> \o rest
  BY <1>4, <1>6 DEF Message
<1>8. <<At(content)>> \o rest = [i \in 1 .. L |-> At(content + i - 1)]
  <2> DEFINE S == {At(i) : i \in Nat}
             both == <<At(content)>> \o rest
  <2>1. \A i \in 1 .. L - 1 : At(content + i) \in S
    BY <1>1
  <2>2. rest \in Seq(S) /\ At(content) \in S /\ Len(rest) = L - 1
    <3>1. L - 1 \in Nat
      BY <1>1
    <3>2. rest \in [1 .. L - 1 -> S]
      BY <2>1
    <3>3. At(content) \in S
      BY <1>1
    <3>. HIDE DEF S, rest
    <3>. QED BY <3>1, <3>2, <3>3
  <2>3. \A i \in 1 .. L - 1 : rest[i] = At(content + i)
    OBVIOUS
  <2>. HIDE DEF S, rest
  <2>4. /\ both \in Seq(S) /\ Len(both) = Len(rest) + 1
        /\ \A i \in 1 .. Len(rest) + 1 : both[i] = IF i = 1 THEN At(content) ELSE rest[i - 1]
    BY <2>2, PutInFront
  <2>5. Len(both) = L
    BY <1>1, <2>2, <2>4
  <2>6. ASSUME NEW i \in 1 .. L PROVE both[i] = At(content + i - 1)
    <3>1. i \in 1 .. Len(rest) + 1
      BY <1>1, <2>2
    <3>2. CASE i = 1
      <4>1. content + i - 1 = content
        BY <1>1, <3>2
      <4>. QED BY <2>4, <3>1, <3>2, <4>1
    <3>3. CASE i # 1
      <4>1. i - 1 \in 1 .. L - 1 /\ content + (i - 1) = content + i - 1
        BY <1>1, <3>3
      <4>2. both[i] = rest[i - 1]
        BY <2>4, <3>1, <3>3
      <4>. QED BY <2>3, <4>1, <4>2
    <3>. QED BY <3>2, <3>3
  <2>. HIDE DEF both
  <2>7. both = [i \in 1 .. L |-> both[i]]
    BY <1>1, <2>4, <2>5
  <2>. QED BY <2>6, <2>7 DEF both
<1>. QED BY <1>2, <1>7, <1>8

KeptInv == ReadSince /\ DataKeptUntilBytes

LEMMA DataKept ==
  ASSUME IInv, KeptInv, [TransactionNext]_transactionVars
  PROVE  KeptInv'
<1>1. ASSUME UNCHANGED <<memory, read, recvHeader, recvData, recvWas>>, pc' \notin {"size", "loop"} \/ pc' = pc
      PROVE  KeptInv'
  <2>1. Message' = Message
    BY <1>1 DEF Message, InputBuffer
  <2>. QED BY <1>1, <2>1 DEF KeptInv, ReadSince, DataKeptUntilBytes
<1>2. CASE UNCHANGED transactionVars
  BY <1>1, <1>2 DEF transactionVars, vars, callVars, mine
<1>3. CASE HttpStep
  <2>1. UNCHANGED <<recvHeader, recvData, recvWas>>
    BY <1>3 DEF HttpStep, mine
  <2>2. /\ read' \/ memory' = memory
        /\ pc' \in {"size", "loop"} => read'
        /\ read => read'
    BY <1>3, MemoryStays DEF HttpStep, KeptInv
  <2>3. ~read' => Message' = Message
    BY <2>1, <2>2 DEF Message, InputBuffer
  <2>. QED BY <2>1, <2>2, <2>3 DEF KeptInv, ReadSince, DataKeptUntilBytes
<1>4. CASE RequestFailed \/ ConfRefused \/ ParseSendConf
  BY <1>1, <1>4 DEF RequestFailed, ConfRefused, ParseSendConf, vars, callVars
<1>5. CASE ParseRetrieveConf
  <2>1. recvWas' = Pdu /\ pc' = "idle"
    BY <1>5 DEF ParseRetrieveConf, Returned, vars, callVars
  <2>2. Message' = recvWas'
    BY <1>5, <2>1, MessageIsPdu
  <2>. QED BY <2>1, <2>2 DEF KeptInv, ReadSince, DataKeptUntilBytes
<1>6. CASE TransactionCreate \/ TransactionDestroy
  <2>1. recvHeader' = <<>> /\ recvData' = <<>> /\ recvWas' = <<>> /\ pc' \notin {"size", "loop"}
    BY <1>6 DEF TransactionCreate, TransactionDestroy, Create, Destroy, NoPdu
  <2>2. Message' = <<>>
    <3>1. [i \in DOMAIN recvData |-> InputBuffer(recvData[i], 1)[1]]' = <<>>
      BY <2>1
    <3>2. <<>> \o <<>> = <<>>
      OBVIOUS
    <3>. QED BY <2>1, <3>1, <3>2 DEF Message
  <2>. QED BY <2>1, <2>2 DEF KeptInv, ReadSince, DataKeptUntilBytes
<1>7. CASE SendFileUnread
  BY <1>1, <1>7 DEF SendFileUnread, vars, callVars
<1>8. CASE Send \/ TransactionReceive
  <2>1. /\ pc' = "send" /\ resp' = <<>> /\ got' = <<>>
        /\ UNCHANGED <<recvHeader, recvData, recvWas>> /\ KeepMemory
    BY <1>8 DEF Send, TransactionReceive, Begin, Request, NextCall, Clear
  <2>2. memory' = memory
    BY <2>1 DEF KeepMemory
  <2>3. read' <=> read
    BY <2>1 DEF KeepMemory
  <2>4. Message' = Message
    BY <2>1, <2>2 DEF Message, InputBuffer
  <2>. QED BY <2>1, <2>3, <2>4 DEF KeptInv, ReadSince, DataKeptUntilBytes
<1>9. CASE TransactionPeer
  BY <1>1, <1>9 DEF TransactionPeer, PeerAnswers, NetworkStep, Answer, Deliver, Close, callVars, mine
<1>. QED BY <1>2, <1>3, <1>4, <1>5, <1>6, <1>7, <1>8, <1>9
         DEF TransactionNext, TransactionLibrary, TransactionApplication

LEMMA CallInvariance == TransactionSpec => []CallInv
<1>1. TransactionInit => CallInv
  BY DEF TransactionInit, Init, CallInv
<1>2. CallInv /\ [TransactionNext]_transactionVars => CallInv'
  BY CallKept
<1>. QED BY <1>1, <1>2, PTL DEF TransactionSpec

(* The message a retrieval handed out reads as it was handed out through     *)
(* any calls, failures and steps of the peer, until a byte of a later       *)
(* response comes: the memory that its parts point into is cleared without  *)
(* being touched (mms_output_buffer.c:84-91, mms_transaction.c:205-223).    *)
THEOREM DataKeptUntilBytesInvariant == TransactionSpec => []DataKeptUntilBytes
<1>1. TransactionInit => KeptInv
  <2>. SUFFICES ASSUME TransactionInit PROVE KeptInv
    OBVIOUS
  <2>1. recvHeader = <<>> /\ recvData = <<>> /\ recvWas = <<>> /\ pc = "none"
    BY DEF TransactionInit, Init, NoPdu
  <2>2. [i \in DOMAIN recvData |-> InputBuffer(recvData[i], 1)[1]] = <<>>
    BY <2>1
  <2>3. <<>> \o <<>> = <<>>
    OBVIOUS
  <2>. QED BY <2>1, <2>2, <2>3 DEF KeptInv, ReadSince, DataKeptUntilBytes, Message
<1>2. IInv /\ KeptInv /\ [TransactionNext]_transactionVars => KeptInv'
  BY DataKept
<1>3. KeptInv => DataKeptUntilBytes
  BY DEF KeptInv
<1>. QED BY <1>1, <1>2, <1>3, TransactionsAreHttp, Invariance, PTL DEF TransactionSpec

-----------------------------------------------------------------------------
(* What a call hands out.                                                  *)

(* The memory holds resp_buffer, and past it what it held before.           *)
MemoryUnits == Units \cup {Garbage}

MemoryHolds ==
  /\ memory \in Seq(MemoryUnits)
  /\ \A i \in 1 .. Len(resp) : i \in DOMAIN memory /\ memory[i] = resp[i]

LEMMA OverlayIs ==
  ASSUME NEW put \in Seq(Units), NEW old \in Seq(MemoryUnits)
  PROVE  /\ Overlay(put, old) \in Seq(MemoryUnits)
         /\ \A i \in 1 .. Len(put) : i \in DOMAIN Overlay(put, old) /\ Overlay(put, old)[i] = put[i]
<1> DEFINE front == put \o <<Garbage>>
           rest == SubSeq(old, Len(put) + 2, Len(old))
<1>1. Units \subseteq MemoryUnits /\ Garbage \in MemoryUnits
  BY DEF MemoryUnits
<1>2. Len(put) \in Nat /\ Len(old) \in Nat
  OBVIOUS
<1>3. put \in Seq(MemoryUnits) /\ <<Garbage>> \in Seq(MemoryUnits)
  BY <1>1
<1>4. rest \in Seq(MemoryUnits)
  <2>1. \A i \in Len(put) + 2 .. Len(old) : old[i] \in MemoryUnits
    BY <1>2
  <2>. QED BY <1>2, <2>1
<1>5. /\ front \in Seq(MemoryUnits) /\ Len(front) = Len(put) + 1
      /\ \A i \in 1 .. Len(put) : front[i] = put[i]
  BY <1>3
<1>. HIDE DEF front, rest
<1>6. /\ front \o rest \in Seq(MemoryUnits) /\ Len(front \o rest) = Len(front) + Len(rest)
      /\ \A i \in 1 .. Len(front) : (front \o rest)[i] = front[i]
  <2>1. Len(front \o rest) = Len(front) + Len(rest)
    BY <1>4, <1>5, ConcatProperties
  <2>2. \A i \in 1 .. Len(front) : (front \o rest)[i] = front[i]
    <3>1. Len(front) \in Nat /\ Len(rest) \in Nat
      BY <1>4, <1>5
    <3>. QED BY <1>4, <1>5, <3>1, ConcatProperties
  <2>. QED BY <1>4, <1>5, <2>1, <2>2
<1>7. Overlay(put, old) = front \o rest
  BY DEF Overlay, front, rest
<1>8. Len(rest) \in Nat /\ DOMAIN (front \o rest) = 1 .. Len(front \o rest)
  BY <1>4, <1>6
<1>. QED BY <1>2, <1>5, <1>6, <1>7, <1>8

LEMMA PuttingHolds ==
  ASSUME IInv', MemoryHolds, KeepMemory
  PROVE  MemoryHolds'
<1>1. CASE resp' = <<>>
  BY <1>1 DEF KeepMemory, MemoryHolds
<1>2. CASE resp' = resp
  BY <1>2 DEF KeepMemory, MemoryHolds
<1>3. CASE resp' \notin {resp, <<>>}
  <2>1. resp' \in Seq(Units) /\ memory \in Seq(MemoryUnits)
    BY DEF IInv, TextsTyped, MemoryHolds
  <2>2. memory' = Overlay(resp', memory)
    BY <1>3 DEF KeepMemory
  <2>. QED BY <2>1, <2>2, OverlayIs DEF MemoryHolds
<1>. QED BY <1>1, <1>2, <1>3

LEMMA MemoryKept ==
  ASSUME IInv', MemoryHolds, [TransactionNext]_transactionVars
  PROVE  MemoryHolds'
<1>1. ASSUME UNCHANGED <<memory, resp>> PROVE MemoryHolds'
  BY <1>1 DEF MemoryHolds
<1>2. CASE UNCHANGED transactionVars
  BY <1>1, <1>2 DEF transactionVars, vars, respVars
<1>3. CASE HttpStep
  BY <1>3, PuttingHolds DEF HttpStep
<1>4. CASE RequestFailed \/ ConfRefused \/ ParseSendConf \/ ParseRetrieveConf
  BY <1>1, <1>4 DEF RequestFailed, ConfRefused, ParseSendConf, ParseRetrieveConf, vars, respVars
<1>5. CASE TransactionCreate
  <2>1. resp' = <<>> /\ memory' = <<>>
    BY <1>5 DEF TransactionCreate, Create
  <2>2. <<>> \in Seq(MemoryUnits) /\ \A i \in 1 .. Len(<<>>) : FALSE
    OBVIOUS
  <2>. QED BY <2>1, <2>2 DEF MemoryHolds
<1>6. CASE TransactionDestroy \/ SendFileUnread
  BY <1>1, <1>6 DEF TransactionDestroy, Destroy, SendFileUnread, vars, respVars
<1>7. CASE Send \/ TransactionReceive
  BY <1>7, PuttingHolds DEF Send, TransactionReceive, Begin
<1>8. CASE TransactionPeer
  BY <1>1, <1>8 DEF TransactionPeer, PeerAnswers, NetworkStep, Answer, Deliver, Close, respVars
<1>. QED BY <1>2, <1>3, <1>4, <1>5, <1>6, <1>7, <1>8
         DEF TransactionNext, TransactionLibrary, TransactionApplication

(* The units of an answer that came in full.                                *)
LEMMA AnswerIs ==
  ASSUME IInv, OwnAnswer(got), AnswerReceived
  PROVE  /\ got[1].n \in Nat /\ Len(got) = 3 + got[1].n
         /\ got[1].head.fields /\ HeadLen(got[1].head) = 3
         /\ \A i \in 1 .. Len(got) : got[i].req = req /\ got[i].at = i
<1>1. got \in Seq(Units) /\ got # <<>>
  BY DEF IInv, TextsTyped, AnswerReceived
<1>2. got[1] \in Units /\ \A i \in 1 .. Len(got) : got[i].req = req /\ got[i].at = i
  BY <1>1, OwnAnswerIs
<1>3. got[1].head \in Heads /\ got[1].n \in Nat
  BY <1>2, UnitIs
<1>4. got[1].head.fields
  BY <1>3, HttpAssumption DEF AnswerReceived
<1>5. HeadLen(got[1].head) = 3
  BY <1>4 DEF HeadLen
<1>6. Len(got) = 3 + got[1].n
  BY <1>5 DEF AnswerReceived, Size
<1>. QED BY <1>2, <1>3, <1>4, <1>5, <1>6

(* resp_buffer begins with what the call received.                          *)
LEMMA RespBeginsWithGot ==
  ASSUME IInv, ChunkPutOnce, kind = "request", result = "OK", NEW i \in 1 .. Len(got)
  PROVE  i \in 1 .. Len(resp) /\ resp[i] = got[i]
<1>1. got \in Seq(Units) /\ chunk \in Seq(Units)
  BY DEF IInv, TextsTyped
<1>2. CASE ended = "timeout"
  <2>1. resp = got \o chunk
    BY <1>2 DEF ChunkPutOnce
  <2>2. Len(resp) = Len(got) + Len(chunk) /\ Len(got) \in Nat /\ Len(chunk) \in Nat
    BY <1>1, <2>1, ConcatProperties
  <2>3. resp[i] = got[i]
    BY <1>1, <2>1, <2>2, ConcatProperties
  <2>. QED BY <2>2, <2>3
<1>3. CASE ended # "timeout"
  BY <1>3 DEF ChunkPutOnce
<1>. QED BY <1>2, <1>3

HttpFacts == IInv /\ BodyInv /\ HeadFound /\ ChunkPutOnce

(* The PDU of a clean call is as much of its answer as that announces.       *)
LEMMA PduIsAnswer ==
  ASSUME HttpFacts, CallInv, MemoryHolds, clean, result = "OK", IsMms, AnswerReceived
  PROVE  LET h == got[1].head
         IN  /\ Len(Pdu) = got[1].n /\ DOMAIN Pdu = 1 .. got[1].n
             /\ \A i \in 1 .. got[1].n : Pdu[i].req = req /\ Pdu[i].at = HeadLen(h) - Early(h) + i
<1> DEFINE h == got[1].head
           n == got[1].n
<1>1. OwnAnswer(got)
  BY DEF HttpFacts, BodyInv, CleanStream
<1>2. /\ n \in Nat /\ Len(got) = 3 + n /\ h.fields /\ HeadLen(h) = 3
      /\ \A i \in 1 .. Len(got) : got[i].req = req /\ got[i].at = i
  BY <1>1, AnswerIs DEF HttpFacts
<1>3. content = 4 - Early(h) /\ header.length = n
  <2>1. got # <<>> /\ h.length # "absent" /\ Len(got) >= 3
    BY <1>2 DEF AnswerReceived
  <2>. QED BY <1>2, <2>1 DEF HttpFacts, HeadFound
<1>4. Early(h) \in {0, 2}
  BY DEF Early
<1>. HIDE DEF h, n
<1>5. GetRespContentLength = n
  BY <1>2, <1>3 DEF GetRespContentLength, NoLength
<1>6. Pdu = [i \in 1 .. n |-> At(content + i - 1)]
  BY <1>5, PduIs
<1>7. ASSUME NEW i \in 1 .. n PROVE Pdu[i].req = req /\ Pdu[i].at = 3 - Early(h) + i
  <2>1. content + i - 1 = 3 - Early(h) + i /\ 3 - Early(h) + i \in 1 .. Len(got)
    BY <1>2, <1>3, <1>4
  <2> DEFINE j == 3 - Early(h) + i
  <2>2. j \in 1 .. Len(resp) /\ resp[j] = got[j]
    BY <2>1, RespBeginsWithGot DEF HttpFacts, CallInv
  <2>3. At(j) = resp[j]
    BY <2>2 DEF At, MemoryHolds
  <2>4. Pdu[i] = At(j)
    BY <1>6, <2>1
  <2>. QED BY <1>2, <2>1, <2>2, <2>3, <2>4
<1>8. Len(Pdu) = n /\ DOMAIN Pdu = 1 .. n
  BY <1>2, <1>6
<1>. QED BY <1>2, <1>7, <1>8 DEF h, n

LEMMA AnswerKeptOut ==
  ASSUME HttpFacts, CallInv, MemoryHolds, HandsOutAnswer, [TransactionNext]_transactionVars
  PROVE  HandsOutAnswer'
<1>1. ASSUME returned' = "OK" =>
               UNCHANGED <<clean, returned, op, respHeader, recvHeader, recvData, memory, got, req>>
      PROVE  HandsOutAnswer'
  <2>. SUFFICES ASSUME returned' = "OK" PROVE HandsOutAnswer'
    BY DEF HandsOutAnswer
  <2>1. Message' = Message
    BY <1>1 DEF Message, InputBuffer
  <2>2. AnswerReceived' <=> AnswerReceived
    BY <1>1 DEF AnswerReceived
  <2>. QED BY <1>1, <2>1, <2>2 DEF HandsOutAnswer
<1>2. ASSUME Returned, result = "OK", IsMms, UNCHANGED vars,
             (op' = "send" /\ respHeader' = Pdu) \/ (op' # "send" /\ Message' = Pdu)
      PROVE  HandsOutAnswer'
  <2>1. UNCHANGED <<clean, got, req>> /\ (AnswerReceived' <=> AnswerReceived)
    BY <1>2 DEF AnswerReceived, vars, callVars, history
  <2>. SUFFICES ASSUME clean, AnswerReceived
                PROVE  LET h   == got[1].head
                           pdu == IF op' = "send" THEN respHeader' ELSE Message'
                       IN  /\ Len(pdu) = got[1].n
                           /\ \A i \in DOMAIN pdu : pdu[i].req = req /\ pdu[i].at = HeadLen(h) - Early(h) + i
    BY <2>1 DEF HandsOutAnswer
  <2>2. LET h == got[1].head
        IN  /\ Len(Pdu) = got[1].n /\ DOMAIN Pdu = 1 .. got[1].n
            /\ \A i \in 1 .. got[1].n : Pdu[i].req = req /\ Pdu[i].at = HeadLen(h) - Early(h) + i
    BY <1>2, PduIsAnswer
  <2>. QED BY <1>2, <2>2
<1>3. CASE UNCHANGED transactionVars
  BY <1>1, <1>3 DEF transactionVars, vars, callVars, history, mine
<1>4. CASE HttpStep
  <2>1. returned' # "OK"
    BY <1>4, LibraryRuns DEF HttpStep, mine, CallInv
  <2>. QED BY <1>1, <2>1
<1>5. CASE RequestFailed \/ ConfRefused
  <2>1. returned' # "OK"
    BY <1>5 DEF RequestFailed, ConfRefused
  <2>. QED BY <1>1, <2>1
<1>6. CASE ParseSendConf
  BY <1>2, <1>6 DEF ParseSendConf
<1>7. CASE ParseRetrieveConf
  <2>1. Message' = Pdu
    BY <1>7, MessageIsPdu DEF HttpFacts
  <2>2. op' # "send" /\ Returned /\ result = "OK" /\ IsMms /\ UNCHANGED vars
    BY <1>7 DEF ParseRetrieveConf
  <2>. QED BY <1>2, <2>1, <2>2
<1>8. CASE TransactionCreate \/ TransactionDestroy \/ SendFileUnread
  <2>1. returned' # "OK"
    BY <1>8 DEF TransactionCreate, TransactionDestroy, SendFileUnread
  <2>. QED BY <1>1, <2>1
<1>9. CASE Send \/ TransactionReceive
  <2>1. returned' # "OK"
    BY <1>9 DEF Send, TransactionReceive, Begin
  <2>. QED BY <1>1, <2>1
<1>10. CASE TransactionPeer
  BY <1>1, <1>10 DEF TransactionPeer, PeerAnswers, NetworkStep, Answer, Deliver, Close,
                     callVars, history, mine
<1>. QED BY <1>3, <1>4, <1>5, <1>6, <1>7, <1>8, <1>9, <1>10
         DEF TransactionNext, TransactionLibrary, TransactionApplication

(* A call that found nothing owed by earlier ones and whose answer came in   *)
(* full hands out as many bytes as that announced, and they are its body,   *)
(* whatever the memory of resp_buffer held before and although the read     *)
(* loop may have put the last chunk twice; behind a head whose lines end in *)
(* LF they are the blank line and the body up to its last two bytes         *)
(* (mms_transaction.c:120-138 and 205-223, http_transaction.c:179-189).     *)
THEOREM HandsOutAnswerInvariant == TransactionSpec => []HandsOutAnswer
<1>1. TransactionInit => MemoryHolds /\ HandsOutAnswer
  <2>. SUFFICES ASSUME TransactionInit PROVE MemoryHolds /\ HandsOutAnswer
    OBVIOUS
  <2>1. resp = <<>> /\ memory = <<>> /\ returned = "none"
    BY DEF TransactionInit, Init
  <2>2. <<>> \in Seq(MemoryUnits) /\ \A i \in 1 .. Len(<<>>) : FALSE
    OBVIOUS
  <2>. QED BY <2>1, <2>2 DEF MemoryHolds, HandsOutAnswer
<1>2. IInv' /\ MemoryHolds /\ [TransactionNext]_transactionVars => MemoryHolds'
  BY MemoryKept
<1>3. HttpFacts /\ CallInv /\ MemoryHolds /\ HandsOutAnswer /\ [TransactionNext]_transactionVars
        => HandsOutAnswer'
  BY AnswerKeptOut
<1>4. IInv /\ BodyInv /\ HeadFound /\ ChunkPutOnce => HttpFacts
  BY DEF HttpFacts
<1>. QED BY <1>1, <1>2, <1>3, <1>4, TransactionsAreHttp, Invariance, CleanCallsReceiveTheirAnswer,
            HeadFoundInvariance, ChunkPutOnceInvariant, CallInvariance, PTL DEF TransactionSpec

-----------------------------------------------------------------------------
(* What no step does.                                                      *)

(* No failure takes back what earlier calls handed out, and neither kind of  *)
(* call touches what the other hands out (mms_transaction.c:120-223).       *)
THEOREM ResultsKeptHolds == TransactionSpec => ResultsKept
<1>1. ASSUME [TransactionNext]_transactionVars
      PROVE  [/\ respHeader' # respHeader => pc = "none" \/ pc' = "none" \/ (returned' = "OK" /\ op = "send")
              /\ <<recvHeader, recvData>>' # <<recvHeader, recvData>>
                   => pc = "none" \/ pc' = "none" \/ (returned' = "OK" /\ op = "receive")]_transactionVars
  <2>1. CASE UNCHANGED transactionVars
    BY <2>1
  <2>2. CASE ParseSendConf \/ ParseRetrieveConf
    BY <2>2 DEF ParseSendConf, ParseRetrieveConf
  <2>3. CASE TransactionCreate \/ TransactionDestroy
    BY <2>3 DEF TransactionCreate, TransactionDestroy, Create, Destroy
  <2>4. CASE HttpStep \/ RequestFailed \/ ConfRefused \/ TransactionPeer
    BY <2>4 DEF HttpStep, RequestFailed, ConfRefused, TransactionPeer, PeerAnswers, NetworkStep, mine
  <2>5. CASE SendFileUnread \/ Send \/ TransactionReceive
    BY <2>5 DEF SendFileUnread, Send, TransactionReceive, Begin
  <2>. QED BY <1>1, <2>1, <2>2, <2>3, <2>4, <2>5
           DEF TransactionNext, TransactionLibrary, TransactionApplication
<1>. QED BY <1>1, PTL DEF TransactionSpec, ResultsKept

=============================================================================
