--------------------------- MODULE HttpTransaction ---------------------------
(***************************************************************************)
(* One HttpTransaction of libmms (http_transaction.c) over its MmsSocket   *)
(* (mms_socket.c), the connection, and the peer at its other end.          *)
(*                                                                         *)
(* A request is ReqLen units, numbered; a unit on the wire to the peer is  *)
(* <<request, number>>.  The units of a response are its status line, its  *)
(* header fields, its blank line and each byte of its body.  They name the *)
(* request that is answered, so that what the client takes for the answer  *)
(* can be compared with what the peer meant.                               *)
(*                                                                         *)
(* A call of the library runs alone on its transaction (there are no       *)
(* locks); the interleaving is with the peer, the network and the clock.   *)
(***************************************************************************)
EXTENDS Integers, Sequences, FiniteSets, SequencesExt

CONSTANTS
  MaxRequests,    (* Bound: calls made in a behaviour.                       *)
  ReqLen,         (* Units of a packed request.                              *)
  WriteChunk,     (* MMS_SOCKET_ONCE_WRITE_BYTES, in units.                  *)
  ReadChunk,      (* HTTP_BUFFER_LENGTH, in units.                           *)
  BodyLengths,    (* Body lengths a peer may answer with.                    *)
  Heads,          (* Heads a peer may answer with, see HeadForms.            *)
  MaxSendErrors,  (* Bound: times send() returns -1 in a behaviour.          *)
  BodyHasNul      (* TRUE when a body holds a NUL, as an MMS PDU does.       *)

(* What of a response head the code tells apart.  Its lines end in CR LF or *)
(* in LF.  Without fields it is a status line and a blank line.  A length is *)
(* "exact" when spelled as the read loop's strstr wants it, "othercase" when *)
(* only resp_header finds it; "type" says that there is a Content-Type.      *)
HeadForms == [version: {"1.1", "other"}, eol: {"crlf", "lf"}, fields: BOOLEAN,
              length: {"exact", "othercase", "absent"}, type: BOOLEAN]

ASSUME HttpAssumption ==
  /\ {MaxRequests, ReqLen, WriteChunk, ReadChunk} \subseteq Nat \ {0}
  /\ BodyLengths \subseteq Nat
  /\ Heads \subseteq {h \in HeadForms : h.fields \/ (h.length = "absent" /\ ~h.type)}
  /\ MaxSendErrors \in Nat
  /\ BodyHasNul \in BOOLEAN

VARIABLES
  pc,         (* Where the current call is, see PCs.                         *)
  kind,       (* The call: "request" (GET and POST) or "file".               *)
  req,        (* Number of the last call.                                    *)
  sent,       (* int ret of mms_socket_send.                                 *)
  resp,       (* resp_buffer: its first data_length bytes.                   *)
  residue,    (* What resp_buffer held when it was cleared: the bytes stay.  *)
  chunk,      (* char buffer[] of read_response: what the last recv returned.*)
  unpacked,   (* Offset in that buffer of the head whose lines http_header_-
                 unpack_item cut with NULs, 0 if none.                       *)
  code,       (* resp_code, as the request whose status line gave it, or 0.  *)
  content,    (* resp_content: 0 for NULL, else its offset in resp plus one. *)
  header,     (* resp_header: its Content-Length, or NoLength, and the
                 request whose response its Content-Type came with, or 0.    *)
  result,     (* What the last call returned.                                *)
  up,         (* Units that reached the peer.                                *)
  down,       (* Units the client's kernel holds, to be read.                *)
  closed,     (* The peer closed its end (after the units of down).          *)
  emitting,   (* Rest of the response the peer is sending.                   *)
  answered,   (* Last request the peer answered, or is answering.            *)
  (* History, read by the properties only. *)
  got,        (* Units this call received.                                   *)
  ended,      (* How the read loop of this call ended.                       *)
  clean,      (* This call found nothing owed by earlier calls.              *)
  errors      (* send() = -1: [all, of this call].                           *)

callVars == <<pc, kind, req, sent>>
respVars == <<resp, residue, chunk, unpacked, code, content, header, result>>
peerVars == <<up, closed, emitting, answered>>
history  == <<got, ended, clean, errors>>
vars     == <<callVars, respVars, peerVars, down, history>>

PCs == {"none", "idle", "send", "first", "size", "loop", "parse", "undefined"}
NoLength == -1
NoHeader == [length |-> NoLength, type |-> 0]

-----------------------------------------------------------------------------
(* Units of a response.                                                    *)

(* The unit at a place of the response to r with a body of n bytes.         *)
Unit(r, at, n, h) == [req |-> r, at |-> at, n |-> n, head |-> h]
Units == [req: 1 .. MaxRequests, at: Nat \ {0}, n: Nat, head: Heads]

HeadLen(h) == IF h.fields THEN 3 ELSE 2
Size(u)    == HeadLen(u.head) + u.n

IsStatus(u)   == u.at = 1
IsFields(u)   == u.head.fields /\ u.at = 2
IsBlank(u)    == u.at = HeadLen(u.head)
IsBody(u)     == u.at > HeadLen(u.head)
EndsLine(u)   == ~IsBody(u)
SaysLength(u) == IsFields(u) /\ u.head.length = "exact"

Response(r, n, h) == [i \in 1 .. HeadLen(h) + n |-> Unit(r, i, n, h)]

-----------------------------------------------------------------------------
(* What strstr and sscanf find.                                            *)

(* The first of some positions, 0 if there is none.                         *)
FirstOf[S \in SUBSET Nat] == IF S = {} THEN 0 ELSE CHOOSE i \in S : \A j \in S : i <= j

(* They stop at the first NUL, in a body or where an earlier unpack put one. *)
Visible(text) ==
  LET nul == FirstOf[{i \in DOMAIN text : i = unpacked \/ (IsBody(text[i]) /\ BodyHasNul)}]
  IN  IF nul = 0 THEN text ELSE SubSeq(text, 1, nul - 1)

(* strstr of "\r\n\r\n", then of "\n\n", from the unit at "from" on: the unit *)
(* whose line end begins it.  The blank line is the unit after it.          *)
HeadEnd(text, from) ==
  LET seen   == Visible(text)
      before == {i \in from .. Len(seen) - 1 : EndsLine(seen[i]) /\ IsBlank(seen[i + 1])}
      crlf   == {i \in before : seen[i].head.eol = "crlf" /\ seen[i + 1].head.eol = "crlf"}
      lf     == {i \in before : seen[i + 1].head.eol = "lf"}
  IN  FirstOf[IF crlf # {} THEN crlf ELSE lf]

(* altered: one byte short.                                                 *)
GetRemainingSizeShort(text) ==
  LET length == FirstOf[{i \in DOMAIN Visible(text) : SaysLength(text[i])}]
      end    == HeadEnd(text, length)
  IN  IF length = 0 \/ end = 0 THEN -1 ELSE text[length].n - (Len(text) - (end + 1)) - 1

(* http_transaction_get_remaining_size: -1 while no complete head with a    *)
(* Content-Length is there.  The body is behind the blank line, whatever    *)
(* the line ends.                                                          *)
GetRemainingSize(text) ==
  LET length == FirstOf[{i \in DOMAIN Visible(text) : SaysLength(text[i])}]
      end    == HeadEnd(text, length)
  IN  IF length = 0 \/ end = 0 THEN -1 ELSE text[length].n - (Len(text) - (end + 1))

-----------------------------------------------------------------------------
(* The response as http_transaction_parse_resp finds it.                    *)

(* The C string at the start of resp_buffer: after a clear that nothing was *)
(* put after, the previous response is still there.                         *)
Text == IF resp = <<>> THEN residue ELSE resp

(* sscanf of "HTTP/1.1 %d", 0 when it does not match.                       *)
StatusOf(text) ==
  IF Visible(text) # <<>> /\ IsStatus(text[1]) /\ text[1].head.version = "1.1"
    THEN text[1].req ELSE 0

(* The unit whose line end is the first CR LF, else the first LF.           *)
HeadStart(text) ==
  LET ends == {i \in DOMAIN Visible(text) : EndsLine(text[i])}
      crlf == {i \in ends : text[i].head.eol = "crlf"}
  IN  FirstOf[IF crlf # {} THEN crlf ELSE ends]

(* altered: two bytes of the four.                                          *)
BodyStartAtBlankLine(text, end) == IF text[end + 1].head.eol = "crlf" THEN end + 1 ELSE end

(* resp_content: past "\r\n\r\n", but at "\n\n", of which the fields' unit   *)
(* here is the first byte.                                                 *)
BodyStart(text, end) == IF text[end + 1].head.eol = "crlf" THEN end + 2 ELSE end

(* The field units from which mms_header_unpack reads.                      *)
FieldsIn(text, start, end) == {k \in start + 1 .. end : IsFields(text[k])}

(* A field's name begins where the last field ended: here that is the start *)
(* of its line, blank lines in front of it not counted.                     *)
AtLineStart(text, start, k) ==
  \E j \in start .. k - 1 :
    (j = start \/ IsFields(text[j])) /\ \A i \in j + 1 .. k - 1 : IsBlank(text[i])

(* Fields that may be misread, by the order the peer gives its fields: the  *)
(* first behind something else has a wrong name, and the value of the last, *)
(* before a blank line that ends in LF, runs on to the next NUL, of which   *)
(* the sscanf of a length does not mind.                                   *)
Misreadable(text, start, end) ==
  {k \in FieldsIn(text, start, end) : ~AtLineStart(text, start, k)} \X {"length", "type"}
    \cup IF text[end + 1].head.eol = "lf" THEN {<<end, "type">>} ELSE {}

(* resp_header; the first of a name wins.                                   *)
HeaderOf(text, start, end, misread) ==
  LET read(what) == {k \in FieldsIn(text, start, end) : <<k, what>> \notin misread}
      length == FirstOf[{k \in read("length") : text[k].head.length # "absent"}]
      type   == FirstOf[{k \in read("type") : text[k].head.type}]
  IN  [length |-> IF length = 0 THEN NoLength ELSE text[length].n,
       type   |-> IF type = 0 THEN 0 ELSE text[type].req]

(* get_response's second half.  Without a line the parser fails; without a  *)
(* blank line body_start is NULL and head_length is no length, which the    *)
(* check at line 181 lets through: nothing is defined from there on.  So it  *)
(* is for a whole head without fields, since head_start is behind the one   *)
(* line end that its blank line would have to follow.                       *)
ParseResp ==
  LET status == StatusOf(Text)
      start  == HeadStart(Text)
      end    == HeadEnd(Text, start + 1)
  IN  /\ code' = IF status = 0 THEN code ELSE status
      /\ \/ /\ start = 0
            /\ result' = "FAIL" /\ pc' = "idle"
            /\ UNCHANGED <<content, header, unpacked>>
         \/ /\ start # 0 /\ end = 0
            /\ result' = "undefined" /\ pc' = "undefined"
            /\ UNCHANGED <<content, header, unpacked>>
         \/ /\ start # 0 /\ end # 0
            /\ result' = "OK" /\ pc' = "idle"
            /\ content' = BodyStart(Text, end)
            /\ \E misread \in SUBSET Misreadable(Text, start, end) :
                 header' = HeaderOf(Text, start, end, misread)
            /\ unpacked' = IF FieldsIn(Text, start, end) = {} THEN unpacked
                           ELSE FirstOf[FieldsIn(Text, start, end)]

(* resp_content_length, and what the getter of that name returns.           *)
RespContentLength == IF content = 0 THEN 0 ELSE Len(resp) - content + 1
GetRespContentLength ==
  IF header.length = NoLength THEN RespContentLength ELSE header.length

-----------------------------------------------------------------------------
(* Creating and destroying the transaction.                                *)

NewConnection ==
  /\ up' = <<>> /\ down' = <<>> /\ emitting' = <<>>
  /\ closed' = FALSE
  /\ answered' = req

Init ==
  /\ pc = "none" /\ kind = "request" /\ req = 0 /\ sent = 0
  /\ resp = <<>> /\ residue = <<>> /\ chunk = <<>> /\ unpacked = 0
  /\ code = 0 /\ content = 0 /\ header = NoHeader /\ result = "none"
  /\ up = <<>> /\ down = <<>> /\ closed = FALSE /\ emitting = <<>> /\ answered = 0
  /\ got = <<>> /\ ended = "no" /\ clean = TRUE /\ errors = [all |-> 0, call |-> 0]

(* http_transaction_create: buffers empty, connected; when mms_socket_connect *)
(* fails it destroys what it made and nothing has changed.                  *)
Create ==
  /\ pc = "none" /\ pc' = "idle"
  /\ resp' = <<>> /\ residue' = <<>> /\ unpacked' = 0
  /\ code' = 0 /\ content' = 0 /\ header' = NoHeader /\ result' = "none"
  /\ NewConnection
  /\ UNCHANGED <<kind, req, sent, chunk, history>>

(* http_transaction_destroy: closes the socket, and with it what is unread. *)
Destroy ==
  /\ pc = "idle" /\ pc' = "none"
  /\ UNCHANGED <<kind, req, sent, respVars, peerVars, down, history>>

-----------------------------------------------------------------------------
(* Sending.                                                                *)

NextCall(k) ==
  /\ pc = "idle" /\ req < MaxRequests
  /\ pc' = "send" /\ kind' = k /\ req' = req + 1 /\ sent' = 0
  /\ result' = "none"
  /\ got' = <<>> /\ ended' = "no"
  /\ clean' = /\ down = <<>> /\ emitting = <<>> /\ answered = req /\ ~closed
              /\ k = "file" => resp = <<>>
  /\ errors' = [errors EXCEPT !.call = 0]

(* altered: resp_buffer is not cleared.                                     *)
ClearLengthsOnly ==
  /\ code' = 0 /\ content' = 0 /\ header' = NoHeader
  /\ UNCHANGED <<resp, residue, chunk, unpacked>>

(* altered: resp_code stays.                                                *)
ClearKeepsCode ==
  /\ resp' = <<>>
  /\ residue' = Text
  /\ content' = 0 /\ header' = NoHeader
  /\ UNCHANGED <<code, chunk, unpacked>>

(* http_transaction_clear: the lengths and the header; the bytes of         *)
(* resp_buffer stay.                                                        *)
Clear ==
  /\ resp' = <<>>
  /\ residue' = Text
  /\ code' = 0 /\ content' = 0 /\ header' = NoHeader
  /\ UNCHANGED <<chunk, unpacked>>

(* http_transaction_request up to mms_socket_send.                         *)
Request ==
  /\ NextCall("request")
  /\ Clear
  /\ UNCHANGED <<peerVars, down>>

(* http_transaction_send_file up to mms_socket_send: nothing is cleared.   *)
SendFile ==
  /\ NextCall("file")
  /\ UNCHANGED <<resp, residue, chunk, unpacked, code, content, header, peerVars, down>>

(* while (ret < length): a ret of -1 is compared as a huge unsigned.        *)
InSendLoop == pc = "send" /\ sent >= 0 /\ sent < ReqLen

(* One turn of the loop of mms_socket_send whose send() took k units.      *)
SendSome(k) ==
  /\ InSendLoop
  /\ k <= WriteChunk /\ sent + k <= ReqLen
  /\ up' = up \o [i \in 1 .. k |-> <<req, sent + i>>]
  /\ sent' = sent + k
  /\ UNCHANGED <<pc, kind, req, respVars, closed, emitting, answered, down, history>>

(* A turn whose send() returned -1 (an interrupted call, say): ret += -1.   *)
SendError ==
  /\ InSendLoop
  /\ errors.all < MaxSendErrors
  /\ errors' = [all |-> errors.all + 1, call |-> errors.call + 1]
  /\ sent' = sent - 1
  /\ UNCHANGED <<pc, kind, req, respVars, peerVars, down, got, ended, clean>>

(* altered: a partial send is enough.                                       *)
SendAcceptedPartly == sent > 0

(* What the caller of mms_socket_send lets pass: request wants every byte,  *)
(* send_file anything but 0, since MmsResult is unsigned.                   *)
SendAccepted == IF kind = "request" THEN sent = ReqLen ELSE sent # 0

(* mms_socket_send returns: ret is length, or -1, which compares as a huge  *)
(* unsigned; or select gave up after the 60 seconds.                        *)
SendReturns ==
  /\ pc = "send"
  /\ IF SendAccepted
       THEN pc' = "first" /\ UNCHANGED result
       ELSE pc' = "idle" /\ result' = "FAIL"
  /\ UNCHANGED <<kind, req, sent, resp, residue, chunk, unpacked, code, content, header,
                 peerVars, down, history>>

-----------------------------------------------------------------------------
(* http_transaction_read_response.                                         *)

Readable == down # <<>> \/ closed

(* mms_output_buffer_put_data on resp_buffer.                              *)
PutData(units) ==
  /\ resp' = resp \o units
  /\ unpacked' = IF resp = <<>> THEN 0 ELSE unpacked
  /\ UNCHANGED residue

(* recv of up to HTTP_BUFFER_LENGTH bytes, put into resp_buffer; the loop   *)
(* ends with length = 0 when get_remaining_size says nothing is missing,    *)
(* then the response is parsed in "parse".                                  *)
Receive ==
  LET n     == IF Len(down) < ReadChunk THEN Len(down) ELSE ReadChunk
      units == SubSeq(down, 1, n)
  IN  /\ pc \in {"first", "loop"} /\ down # <<>>
      /\ down' = SubSeq(down, n + 1, Len(down))
      /\ chunk' = units
      /\ got' = got \o units
      /\ PutData(units)
      /\ pc' = "size"
      /\ UNCHANGED <<kind, req, sent, code, content, header, result, peerVars,
                     ended, clean, errors>>

(* altered: the loop ends with length > 0, and the put after it runs.       *)
TestRemainingKeepsLength ==
  /\ pc = "size"
  /\ IF GetRemainingSize(resp) = 0
       THEN pc' = "parse" /\ ended' = "complete" /\ PutData(chunk)
       ELSE pc' = "loop" /\ UNCHANGED <<ended, resp, residue, unpacked>>
  /\ UNCHANGED <<kind, req, sent, chunk, code, content, header, result, peerVars, down,
                 got, clean, errors>>

(* The test of rlength after a put.                                        *)
TestRemaining ==
  /\ pc = "size"
  /\ IF GetRemainingSize(resp) = 0
       THEN pc' = "parse" /\ ended' = "complete"
       ELSE pc' = "loop" /\ UNCHANGED ended
  /\ UNCHANGED <<kind, req, sent, respVars, peerVars, down, got, clean, errors>>

(* recv returned 0 or -1: the loop ends, whatever has been received.       *)
ReceiveEnd ==
  /\ pc \in {"first", "loop"} /\ down = <<>> /\ closed
  /\ pc' = "parse"
  /\ ended' = "closed"
  /\ UNCHANGED <<kind, req, sent, respVars, peerVars, down, got, clean, errors>>

(* altered: get_response does not look at what read_response returned.      *)
WaitFirstTimeoutIgnored ==
  /\ pc = "first" /\ ~Readable
  /\ pc' = "idle" /\ result' = "OK"
  /\ ended' = "timeout"
  /\ UNCHANGED <<kind, req, sent, resp, residue, chunk, unpacked, code, content, header,
                 peerVars, down, got, clean, errors>>

(* The first mms_socket_wait_for_data gave up.                             *)
WaitFirstTimeout ==
  /\ pc = "first" /\ ~Readable
  /\ pc' = "idle" /\ result' = "FAIL"
  /\ ended' = "timeout"
  /\ UNCHANGED <<kind, req, sent, resp, residue, chunk, unpacked, code, content, header,
                 peerVars, down, got, clean, errors>>

(* altered: the later waits have no limit.                                  *)
WaitNextForever == pc = "loop" /\ ~Readable /\ UNCHANGED vars

(* A later one gave up: the loop is left with length > 0, and the put that  *)
(* follows it (lines 282-285) appends buffer[] once more.                   *)
WaitNextTimeout ==
  /\ pc = "loop" /\ ~Readable
  /\ pc' = "parse"
  /\ ended' = "timeout"
  /\ PutData(chunk)
  /\ UNCHANGED <<kind, req, sent, chunk, code, content, header, result, peerVars,
                 down, got, clean, errors>>

(* http_transaction_parse_resp, and the call returns.                      *)
Parse ==
  /\ pc = "parse"
  /\ ParseResp
  /\ UNCHANGED <<kind, req, sent, resp, residue, chunk, peerVars, down, history>>

-----------------------------------------------------------------------------
(* The peer and the network: a server, or the gateway in front of it.      *)

PeerLive == pc \notin {"none", "undefined"}

(* It answers a request of which it has the last unit, later ones after     *)
(* earlier ones.                                                            *)
Answer(r, n, h) ==
  /\ PeerLive /\ ~closed /\ emitting = <<>>
  /\ answered < r
  /\ \E i \in DOMAIN up : up[i] = <<r, ReqLen>>
  /\ answered' = r
  /\ emitting' = Response(r, n, h)
  /\ UNCHANGED <<callVars, respVars, up, closed, down, history>>

(* A unit arrives, in order.                                               *)
Deliver ==
  /\ PeerLive /\ emitting # <<>>
  /\ down' = Append(down, Head(emitting))
  /\ emitting' = Tail(emitting)
  /\ UNCHANGED <<callVars, respVars, up, closed, answered, history>>

(* It closes, between responses or in the middle of one.                   *)
Close ==
  /\ PeerLive /\ ~closed
  /\ closed' = TRUE
  /\ emitting' = <<>>
  /\ UNCHANGED <<callVars, respVars, up, answered, down, history>>

-----------------------------------------------------------------------------
Library ==
  \/ \E k \in 1 .. WriteChunk : SendSome(k)
  \/ SendError
  \/ SendReturns
  \/ Receive
  \/ TestRemaining
  \/ ReceiveEnd
  \/ WaitFirstTimeout
  \/ WaitNextTimeout
  \/ Parse

Application == Create \/ Request \/ SendFile \/ Destroy

Peer ==
  \/ \E r \in 1 .. MaxRequests, n \in BodyLengths, h \in Heads : Answer(r, n, h)
  \/ Deliver
  \/ Close

Next == Library \/ Application \/ Peer

(* The library is a running thread whose every wait has a time limit.  The  *)
(* application need not call, and the peer need not answer.                 *)
Spec == Init /\ [][Next]_vars
FairSpec == Spec /\ WF_vars(Library)

-----------------------------------------------------------------------------
(* Properties.                                                             *)

(* Every variable has its type; the fields of units are those of Response.  *)
TypeOK ==
  /\ pc \in PCs /\ kind \in {"request", "file"}
  /\ req \in 0 .. MaxRequests
  /\ sent \in -1 .. ReqLen
  /\ {resp, residue, chunk, got, down, emitting} \subseteq Seq(Units)
  /\ unpacked \in Nat /\ content \in Nat /\ code \in 0 .. MaxRequests
  /\ header \in [length: Nat \cup {NoLength}, type: 0 .. MaxRequests]
  /\ result \in {"none", "OK", "FAIL", "undefined"}
  /\ up \in Seq((1 .. MaxRequests) \X (1 .. ReqLen))
  /\ closed \in BOOLEAN /\ clean \in BOOLEAN
  /\ answered \in 0 .. MaxRequests
  /\ ended \in {"no", "complete", "closed", "timeout"}
  /\ errors \in [all: 0 .. MaxSendErrors, call: 0 .. MaxSendErrors]

Reading == pc \in {"first", "size", "loop", "parse"}

(* A request that mms_socket_send reports as sent in full went out with no  *)
(* gap and up to its last byte, whatever send() did, and nothing was sent   *)
(* between or after: each error makes the loop step back one byte and send  *)
(* it again, and never skip one.                                            *)
SentWithoutGap ==
  kind = "request" /\ Reading =>
    \E first \in DOMAIN up :
      /\ \A i \in DOMAIN up : up[i][1] = req <=> i >= first
      /\ up[first][2] = 1 /\ Last(up)[2] = ReqLen
      /\ \A i \in first .. Len(up) - 1 : up[i + 1][2] <= up[i][2] + 1
      /\ Len(up) - first + 1 = ReqLen + errors.call

(* The read loop puts what recv returned into resp_buffer once and in order *)
(* on every way out of it but the expiry of a later wait, which puts the    *)
(* last chunk a second time.                                                *)
ChunkPutOnce ==
  kind = "request" /\ (pc \in {"size", "loop", "parse"} \/ result = "OK") =>
    resp = IF ended = "timeout" THEN got \o chunk ELSE got

(* When get_remaining_size ends the loop, the next unread byte of the       *)
(* connection is the first of a response, even if this call began by        *)
(* reading what a call that timed out had left, and whatever the line ends.  *)
(* Only two responses of different line ends in one buffer would confuse    *)
(* it: it looks for CR LF first, wherever that is.                          *)
StopsAtBoundary ==
  kind = "request" /\ ended = "complete" /\ pc # "none" =>
    \/ \E i \in DOMAIN got : got[i].head.eol # got[1].head.eol
    \/ down \o emitting = <<>>
    \/ IsStatus(Head(down \o emitting))

(* A request reports what the first bytes it received say, and nothing of    *)
(* the answer before: a late answer to another call as such, and no status  *)
(* when it does not begin with one of HTTP/1.1.                             *)
AnswersFirst ==
  kind = "request" /\ result = "OK" /\ got # <<>> =>
    code = IF IsStatus(got[1]) /\ got[1].head.version = "1.1" THEN got[1].req ELSE 0

(* A call that found nothing owed by earlier ones and returns OK reports    *)
(* the status of the answer to its own request, unless that is not of       *)
(* HTTP/1.1: then a request reports 0, and send_file what it found.  If it   *)
(* received nothing at all, the peer has closed.                            *)
AnswersThisCall ==
  clean /\ result = "OK" =>
    IF got = <<>> THEN ended = "closed"
    ELSE code = req \/ (got[1].head.version = "other" /\ (kind = "request" => code = 0))

(* How far before the body resp_content is.                                 *)
Early(h) == IF h.eol = "lf" THEN 2 ELSE 0

(* ... and if the loop ended by the length, resp_content is the body of     *)
(* that answer, whole, and its length is the one announced; behind a head   *)
(* whose lines end in LF it is the blank line and the body, and two longer. *)
ContentIsBody ==
  clean /\ result = "OK" /\ ended = "complete" =>
    LET h == got[1].head
    IN  /\ RespContentLength = header.length + Early(h)
        /\ \A i \in 1 .. RespContentLength :
             LET u == resp[content + i - 1]
             IN  u.req = req /\ u.at = HeadLen(h) - Early(h) + i

(* Such a call reaches the unchecked body_start only if the peer closed or  *)
(* fell silent and either the head of the answer never came in full or it   *)
(* has no fields.                                                          *)
UndefinedOnlyWithoutHead ==
  clean /\ pc = "undefined" =>
    /\ ended \in {"closed", "timeout"}
    /\ \A i \in DOMAIN got : IsBlank(got[i]) => ~got[i].head.fields

(* Every call returns, though the peer may never answer: the waits expire.  *)
CallReturns == (pc \notin {"none", "idle"}) ~> (pc \in {"idle", "undefined"})

=============================================================================
