--------------------------- MODULE MmsTransaction ---------------------------
(***************************************************************************)
(* An MmsTransaction (mms_transaction.c) over its HttpTransaction, which   *)
(* is the module it extends: the calls of this module start a request of   *)
(* that one and, when it returns, unpack what came.                        *)
(*                                                                         *)
(* The header of a send confirmation and the message of a retrieval are    *)
(* the transaction's own: callers get pointers to them.  The header keeps  *)
(* copies of the bytes it was unpacked from; the parts of the message keep *)
(* pointers into the memory of resp_buffer, which a later response reuses. *)
(* A PDU is the units of a response body: the first is the header, the     *)
(* others are the parts' data.  What the bytes of a PDU mean is MmsUnpack's *)
(* subject; here they only say which response they came with.              *)
(***************************************************************************)
EXTENDS HttpTransaction

CONSTANTS
  Types,       (* Content types of responses.                                *)
  MmsType      (* "application/vnd.wap.mms-message".                          *)

ASSUME TransactionAssumption == MmsType \in Types

VARIABLES
  op,          (* The last call of mms_transaction.c: "send" or "receive".   *)
  busy,        (* It runs.                                                   *)
  returned,    (* What the last call returned.                               *)
  types,       (* Content-Type of the response to each request.              *)
  memory,      (* The bytes of resp_buffer's block, past its length too.     *)
  respHeader,  (* resp_header: the bytes it was unpacked from, all copied.   *)
  recvHeader,  (* The same of the header of recv_mms.                        *)
  recvData,    (* The data of its parts, in order: offsets in memory.         *)
  (* History, read by the properties only. *)
  recvWas,     (* What the message was when it was handed out.               *)
  read         (* Bytes have been received since then.                       *)

mine == <<op, busy, returned, types, respHeader, recvHeader, recvData, recvWas>>
transactionVars == <<vars, mine, memory, read>>

NoPdu == <<>>
Garbage == Unit(0, 0, 0, "none")   \* A NUL, or what malloc left.

-----------------------------------------------------------------------------
(* The memory of resp_buffer.                                              *)

(* mms_output_buffer_put_data ends what it put with a NUL; past that the    *)
(* block holds what it held before.  A block that grows may move: the bytes *)
(* go with it, the pointers do not, but then a byte has been put.           *)
Overlay(put, old) == put \o <<Garbage>> \o SubSeq(old, Len(put) + 2, Len(old))

(* altered: emptying the buffer empties its memory.                        *)
KeepMemoryEmptied ==
  /\ memory' = IF resp' = <<>> THEN <<>> ELSE IF resp' = resp THEN memory ELSE Overlay(resp', memory)
  /\ read' = (read \/ got' \notin {got, <<>>})

(* Putting changes it, emptying the buffer does not.                        *)
KeepMemory ==
  /\ memory' = IF resp' \in {resp, <<>>} THEN memory ELSE Overlay(resp', memory)
  /\ read' = (read \/ got' \notin {got, <<>>})

(* An MmsInputBuffer over length bytes of it from offset "at".              *)
InputBuffer(at, length) ==
  [i \in 1 .. length |-> IF at + i - 1 \in DOMAIN memory THEN memory[at + i - 1] ELSE Garbage]

-----------------------------------------------------------------------------
TransactionInit ==
  /\ Init
  /\ op = "send" /\ busy = FALSE /\ returned = "none"
  /\ types = [r \in 1 .. MaxRequests |-> MmsType]
  /\ memory = <<>>
  /\ respHeader = NoPdu /\ recvHeader = NoPdu /\ recvData = <<>>
  /\ recvWas = NoPdu /\ read = FALSE

(* mms_transaction_create.  Without a connection it destroys what it made   *)
(* and returns NULL: nothing has changed.                                   *)
TransactionCreate ==
  /\ Create
  /\ returned' = "none"
  /\ respHeader' = NoPdu /\ recvHeader' = NoPdu /\ recvData' = <<>>
  /\ memory' = <<>> /\ recvWas' = NoPdu /\ read' = FALSE
  /\ UNCHANGED <<op, busy, types>>

(* mms_transaction_destroy: the header and the message go with it.          *)
TransactionDestroy ==
  /\ ~busy
  /\ Destroy
  /\ respHeader' = NoPdu /\ recvHeader' = NoPdu /\ recvData' = <<>> /\ recvWas' = NoPdu
  /\ returned' = "none"
  /\ UNCHANGED <<op, busy, types, memory, read>>

-----------------------------------------------------------------------------
(* The calls, up to the request of http_transaction.c.                     *)

Begin(o) ==
  /\ ~busy
  /\ Request
  /\ KeepMemory
  /\ op' = o /\ busy' = TRUE /\ returned' = "none"
  /\ UNCHANGED <<types, respHeader, recvHeader, recvData, recvWas>>

(* mms_transaction_send, whose buffer always has bytes to post, and         *)
(* mms_transaction_send_buffer and _send_file with a file it can read.      *)
Send == Begin("send")

(* mms_transaction_send_file with a file it cannot read.                    *)
SendFileUnread ==
  /\ ~busy /\ pc = "idle"
  /\ returned' = "FAIL"
  /\ UNCHANGED <<vars, op, busy, types, respHeader, recvHeader, recvData,
                 recvWas, memory, read>>

(* mms_transaction_receive; it refuses a NULL for its last argument.        *)
TransactionReceive == Begin("receive")

-----------------------------------------------------------------------------
(* The calls, from where http_transaction.c returned.                      *)

Returned == busy /\ pc = "idle"

(* altered: the results of earlier calls are taken back.                   *)
RequestFailedForgets ==
  /\ Returned /\ result # "OK"
  /\ busy' = FALSE /\ returned' = "FAIL"
  /\ respHeader' = NoPdu
  /\ UNCHANGED <<vars, op, types, recvHeader, recvData, recvWas, memory, read>>

(* The request failed: so does the call.                                    *)
RequestFailed ==
  /\ Returned /\ result # "OK"
  /\ busy' = FALSE /\ returned' = "FAIL"
  /\ UNCHANGED <<vars, op, types, respHeader, recvHeader, recvData, recvWas, memory, read>>

(* Content-Type, of the response it was read from.                          *)
RespContentType == types[header.type]

IsMms == header.type # 0 /\ RespContentType = MmsType /\ GetRespContentLength > 0

(* altered: what was received is unpacked, not what was announced.          *)
PduReceived == InputBuffer(content, RespContentLength)

Pdu == InputBuffer(content, GetRespContentLength)

(* A response that is no MMS: FAIL, though the peer has the request and has *)
(* answered.  So it does when resp_header is NULL, which is looked at only  *)
(* here, so that the application's choice is made here.                     *)
ConfRefused ==
  /\ Returned /\ result = "OK"
  /\ ~IsMms \/ op = "send"
  /\ busy' = FALSE /\ returned' = "FAIL"
  /\ UNCHANGED <<vars, op, types, respHeader, recvHeader, recvData, recvWas, memory, read>>

(* mms_transaction_parse_send_conf.                                        *)
ParseSendConf ==
  /\ Returned /\ result = "OK" /\ op = "send"
  /\ IsMms
  /\ respHeader' = Pdu
  /\ busy' = FALSE /\ returned' = "OK"
  /\ UNCHANGED <<vars, op, types, recvHeader, recvData, recvWas,
                 memory, read>>

(* mms_transaction_parse_retrieve_conf.                                    *)
ParseRetrieveConf ==
  /\ Returned /\ result = "OK" /\ op = "receive"
  /\ IsMms
  /\ recvHeader' = InputBuffer(content, 1)
  /\ recvData' = [i \in 1 .. Len(Pdu) - 1 |-> content + i]
  /\ busy' = FALSE /\ returned' = "OK"
  /\ recvWas' = Pdu /\ read' = FALSE
  /\ UNCHANGED <<vars, op, types, respHeader, memory>>

-----------------------------------------------------------------------------
(* The steps of HttpTransaction.                                           *)

HttpStep == Library /\ KeepMemory /\ UNCHANGED mine

PeerAnswers(r, n, h, t) ==
  /\ Answer(r, n, h)
  /\ types' = [types EXCEPT ![r] = t]
  /\ UNCHANGED <<op, busy, returned, respHeader, recvHeader, recvData, recvWas, memory, read>>

NetworkStep == (Deliver \/ Close) /\ UNCHANGED <<mine, memory, read>>

TransactionLibrary == HttpStep \/ RequestFailed \/ ConfRefused \/ ParseSendConf \/ ParseRetrieveConf

TransactionApplication ==
  \/ TransactionCreate \/ TransactionDestroy
  \/ Send \/ SendFileUnread
  \/ TransactionReceive

TransactionPeer ==
  \/ \E r \in 1 .. MaxRequests, n \in BodyLengths, h \in Heads, t \in Types :
       PeerAnswers(r, n, h, t)
  \/ NetworkStep

TransactionNext == TransactionLibrary \/ TransactionApplication \/ TransactionPeer

TransactionSpec == TransactionInit /\ [][TransactionNext]_transactionVars

-----------------------------------------------------------------------------
(* Properties.                                                             *)

(* The message as the application reads it: its own header, borrowed data.  *)
Message == recvHeader \o [i \in DOMAIN recvData |-> InputBuffer(recvData[i], 1)[1]]

(* The answer to this call came in full, and with a Content-Length.        *)
AnswerReceived ==
  got # <<>> /\ Len(got) = Size(got[1]) /\ got[1].head.length # "absent"

(* A call that found nothing owed by earlier ones and whose answer came in  *)
(* full hands out as many bytes as the answer announced, and they are its   *)
(* body: even when the read loop missed the Content-Length, ran into its    *)
(* time limit and put the last chunk twice, because the parser trusts the   *)
(* announced length.  Behind a head whose lines end in LF the bytes begin   *)
(* at the blank line, and the last two of the body are missing.             *)
HandsOutAnswer ==
  clean /\ returned = "OK" /\ AnswerReceived =>
    LET h   == got[1].head
        pdu == IF op = "send" THEN respHeader ELSE Message
    IN  /\ Len(pdu) = got[1].n
        /\ \A i \in DOMAIN pdu : pdu[i].req = req /\ pdu[i].at = HeadLen(h) - Early(h) + i

(* The message handed out keeps its data until a byte of a later response   *)
(* comes, through sends, requests that were not sent and requests that were *)
(* not answered: emptying resp_buffer leaves its memory alone.              *)
DataKeptUntilBytes == ~read => Message = recvWas

(* A call that fails leaves the header and the message that earlier calls   *)
(* handed out, and a send leaves the message, a receive the header.         *)
ResultsKept ==
  [][/\ respHeader' # respHeader => pc = "none" \/ pc' = "none" \/ (returned' = "OK" /\ op = "send")
     /\ <<recvHeader, recvData>>' # <<recvHeader, recvData>>
          => pc = "none" \/ pc' = "none" \/ (returned' = "OK" /\ op = "receive")]_transactionVars

=============================================================================
