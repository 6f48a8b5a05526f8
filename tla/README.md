# libmms in TLA+

Models, model checking and proofs for libmms, a C library with which a client of the
Multimedia Messaging Service composes, packs, sends, receives and unpacks messages. The
paths below are relative to the repository's `src/` directory, where the C files are
(`src/mms.c` and its neighbours); the tests are the `main` functions at the end of each
file, under `#ifdef ..._TEST`.

The library has no threads and no locks. What makes it hard is elsewhere: a peer and a
network that answer late, in pieces or not at all; byte strings from outside whose lengths
may say anything, in `size_t` arithmetic that wraps; buffers with nested transactions and
nested limits whose failures nobody looks at; and a message made of two halves, slides and
body parts, that only names hold together.

## 1. The system

### 1.1 Components

| Component | State | Operations | Called by |
|---|---|---|---|
| `mms_socket` | a descriptor | connect, send, recv, wait_for_data, disconnect | `http_transaction` |
| `http_transaction` | socket, request and response header, two output buffers, code, content, content length | create, request (GET, POST), send_file, getters, destroy | `mms_transaction` |
| `mms_transaction` | an HttpTransaction, a response header and a received Mms, both reused by the next call | send, send_buffer, send_file, receive, getters | application |
| `mms_output_buffer` | memory, length, data length, stack of transactions | put_*, get_*_bytes, begin, rollback, commit, clear, detach | every packer, `http_transaction` |
| `mms_input_buffer` | memory (not its own), offset, limit, stack of limits | get_*, is_*, push_limit, pop_limit, skip_to_limit, seek | every unpacker |
| `mms_header` | a list of items | unpack, pack, set, get, erase by name | `mms`, `mms_body_part`, `http_transaction`, `wap_push` |
| `mms_header_codec`, `wsp_header_codec`, `mms_content_type`, `mms_charset` | none but the content type's fields | unpack_item, pack_item, tables of names | `mms_header`, through function pointers |
| `mms_body_part` | a header, data, length, what to free | unpack, pack, set_name, compare_by_name, create_from_file, _from_buffer | `mms_body`, `mms` |
| `mms_body` | list of parts, a SMIL | unpack, pack, add, find, erase | `mms` |
| `mms_smil` (over `mms_xml`, expat callbacks) | regions, pars, a header | unpack, dump_xml, par_set/get, fix_filename_by_cid, is_file_exist | `mms_body`, `mms` |
| `mms` (facade) | header, body | create, add_par, par_set_*, par_erase_*, attachments, save | application |
| `mms_list` | doubly linked nodes, destroy function | append, prepend, remove, find, nth, foreach | nearly all |
| `wap_push`, `mms_notify` | a push, the header of a notification | create from a buffer, getters | application |
| `mms_util` | a counter for unique ids | files, names, items, host of an url | nearly all |

### 1.2 What is hard, and what makes each component correct

* **http_transaction and mms_socket.** The response comes in pieces; the read loop stops on
  a count of missing bytes, on a close, or on a wait that expires; a call that timed out
  leaves its answer for the next; `send` may be interrupted; comparisons mix signed and
  unsigned. Correct means: what counts as sent was sent whole and in order; what was
  received is in the buffer once; the loop stops at the end of a response; a call on a
  connection with no debts reports the answer to its own request; every call returns.
* **mms_output_buffer.** Growth by `realloc` between a begin and its rollback; measuring by
  writing and taking back; a stack with a limit. Correct means: a rollback restores exactly
  the bytes of its begin; nothing uninitialised is ever handed out; the terminator fits.
* **mms_input_buffer and the unpackers.** Lengths inside lengths, each claimed by the bytes
  themselves; limits that may be refused, or wider than the one outside; strings that end at
  a NUL and not at the limit; sums that wrap; loops that end when an offset passes another.
  Correct means: reads stay in the message's memory; the enclosing limit is back in force
  after each value; the next header, and each part's data, is found where lengths say; and
  unpacking ends.
* **mms, mms_smil, mms_body.** A part is shared by all slots that show its name, replaced
  files must go with their last slot, failures in the middle of a call, getters that hand
  out pointers into what a later call clears. Correct means: every file a par shows is in
  the message; nothing else is, but what was attached; a call changes one slot.
* **mms_transaction.** What it hands out belongs to it and points into the HTTP buffer; the
  PDU is unpacked over the length the peer announced. Correct means: a call hands out the answer
  to itself, as long as announced; what was handed out stays as long as the code can keep it; a
  call that fails takes nothing back.
* **mms_header and the setters over it.** Items are found by name and replaced, moved to the
  end when their type changes, read up to a content type, packed behind three protocol fields.
  Correct means: a name shows what it was set to last; nothing packed is out of a reader's
  sight; the protocol fields lead, but for one that the caller moves itself.
* **codecs.** Correct means: unpacking what was packed gives the value, at every boundary of
  the encodings (28, 30, 127, 128, 255, 65535, 0xfffff, ...).
* **mms_smil as a document.** Attributes by position, sizes that carry a percent bit, region
  names without case, cids that become file names. Correct means: writing and reading a SMIL
  loses nothing, and reading into one at hand adds to it.
* **mms_notify.** A time to expire that may count from a date the MMSC left out. Correct means:
  never expired too early, never alive again after it was found expired.
* **mms_list.** Every other component stands on it. Correct means: links both ways agree with a
  sequence, walks meet each node once, and a datum has one owner.

The full list of hazards, each with its line and the properties that cover it, is in
`PROJECT.json`.

## 2. The modules

| Module | Models | Relation to others |
|---|---|---|
| `HttpTransaction` | `http_transaction.c`, `mms_socket.c`, the peer | |
| `MmsTransaction` | `mms_transaction.c`, the memory of `resp_buffer` | extends `HttpTransaction` |
| `MmsTransaction_proofs` | theorems about both | `SequenceFacts` |
| `SavepointText` | abstract: a text with savepoints | |
| `MmsOutputBuffer` | `mms_output_buffer.c` | refines `SavepointText` |
| `MmsInputBuffer` | `mms_input_buffer.c` | |
| `MmsUnpack` | `mms_unpack`, `wap_push_create` and all unpackers under them, over any bytes | extends `MmsInputBuffer` |
| `MmsMessage_proofs` | theorems about it, `MmsInputBuffer` and `MmsCompose` | `SequenceFacts` |
| `ByteFormats` | the bytes of each kind of value, written (`mms_output_buffer.c`) and read (`mms_input_buffer.c`) | |
| `ItemChannel` | abstract: a channel of items | |
| `MmsCodec` | the MMS, WSP and HTTP codecs, content types, parts and body, packed and unpacked | extends `ByteFormats`, refines `ItemChannel` |
| `MmsBytes_proofs` | theorems about the bytes of values and items, and about `MmsOutputBuffer` | `SequenceFacts` |
| `MmsCodec_proofs` | theorems about `MmsCodec` | extends `MmsBytes_proofs` |
| `ListSequence` | abstract: a sequence that owns its data | |
| `MmsList` | `mms_list.c`, a node at a time | refines `ListSequence` |
| `MmsList_proofs` | its theorems | `SequenceFacts` |
| `HeaderFields` | abstract: a map from names to contents | |
| `MmsHeader` | `mms_header.c`, the items of `mms_util.c`, the header setters of `mms.c` | refines `HeaderFields` |
| `MmsHeader_proofs` | its theorems | `SequenceFacts` |
| `Presentation` | abstract: title, places, slides | |
| `MmsSmil` | `mms_smil.c` with its XML written and read | refines `Presentation` |
| `MmsSmil_proofs` | theorems about it and about `MmsNotify` | `SequenceFacts` |
| `MmsCompose` | `mms.c` over `mms_smil.c`, `mms_body.c`, `mms_body_part.c` | |
| `MmsNotify` | the date and expiry of `mms.c`, `mms_notify.c` | |
| `SequenceFacts` | lemmas about sequences that several proofs cite | |
| `MC...` | instances for TLC, with the `.cfg` files | |

Definitions under a comment that begins with "altered:" are plausible mistakes in the
definition after them. They are not part of any specification; replacing the definition by its
alteration makes the property it is paired with (`PROJECT.json`, "mutants") fail, which shows
that the property depends on the code.

A model of a component leaves out what another model has: `MmsUnpack` has every byte free and
keeps the control of unpacking, `MmsCodec` has the bytes a packer wrote and keeps their values;
`MmsCompose` has the slots of a message by name, `MmsSmil` the document they are written to.

### 2.1 HttpTransaction

`pc` is the place a call has reached: `send` is `mms_socket_send`, `first` and `loop` the
two calls of `mms_socket_wait_for_data` in `http_transaction_read_response`, `size` the test
after a put, `parse` is `http_transaction_parse_resp`; `idle` is between calls; `undefined`
is where the code goes on with a NULL `body_start` (line 181), from where nothing is said.
A request is `ReqLen` units; a response is a unit for the status line, one for its header fields
if it has any, one for the blank line and one per byte of the body. Each unit names the request it
belongs to, so that what the client takes for the answer can be compared with what the peer sent.
A peer answers with any head of `Heads`: of HTTP/1.1 or not, lines that end in CR LF or in LF,
with or without fields, a length spelled as the read loop looks for it or otherwise.

Kept, because the properties tell them apart:

* `strstr` and `sscanf` stop at a NUL, so that a body or a header already unpacked (which is cut
  with NULs in place) hides what follows (`Visible`);
* `sscanf("HTTP/1.1 %d")` matches that version only, and `resp_code` stays as it was (`StatusOf`,
  `http_transaction.c:159`);
* the blank line is looked for behind the first line end, of which it needs the two bytes when
  there are no fields, so that such a head is not found (`HeadEnd` from `HeadStart`, `:172-179`);
* in the "\n\n" branch `body_start` stays at the blank line, while the read loop counts from behind
  it (`BodyStart`, `:179-183`, `GetRemainingSize`, `:225`); CR LF is looked for first, wherever it is;
* what the header lookup takes for a field when the head is not the one its start was found
  in (`Misreadable`): the first behind something else is read from the middle of a line and the
  last before an LF blank line runs on to a NUL, so the reader may or may not get them;
* clearing a buffer leaves its bytes, which the next parse may read (`residue`);
* the loop finds only `Content-Length` as spelled and the header lookup any case;
* `-1` is compared as unsigned.

Free: how `send` and `recv` cut the bytes, whether `send` fails, what the peer answers, and when a
wait expires. A response uses one kind of line end throughout, and no byte of a body is taken for a
line end or a colon: two responses of different line ends in one buffer are in the model, one that
mixes them is not. Not modelled: `mms_assert`, allocation failure, and the fields of the header
other than the length and the content type.

### 2.2 MmsOutputBuffer and SavepointText

One action per function; the memory is a function from offsets to bytes, with `Garbage` for
what `malloc` and `realloc` leave. `extend` is `Extended` and `ExtendedLength`.
`get_encoded_string_bytes` is its begin, puts and rollback in one action, with the case that
the begin is refused. Two rules of the callers, not of the code, are guards: a buffer is
cleared or detached with no transaction open, and destroyed right after a detach
(`http_transaction_clear`, `mms_save_to_buffer`). The variants of put differ in the bytes
they put only; which bytes an integer becomes is in `ByteFormats`.

`SavepointText` is what packers rely on: a text that grows at its end, savepoints, rollback
to the text of the last one, bytes and all. The refinement maps `text` to the memory up to
`data_length` and `saved` to the memory up to the offset of each transaction: that these
offsets mean anything in the memory of *now* is what has to be shown.

### 2.3 MmsInputBuffer and MmsUnpack

`MmsInputBuffer` has the offset, the limit and the stack. The bytes are left out: a read of
an integer takes one byte up to the limit, a string any number up to the next NUL, and what
was read is free. `Plus` is addition of `size_t`. `BufferSpec` is any calls in any order.

`MmsUnpack` runs the unpackers on such a buffer. `todo` is the C stack and the statements
after each call, as a sequence of tasks, the next one first; a step does the first task and
may put others in its place. `From`, for instance, is
`<<"length", "push", "number", "address", "skip", "pop">>`, the statements of that case
(`mms_header_codec.c:322-351`), and `Part` is `mms_body_part_unpack`. Since every byte is
free, any message is unpacked: each length may fit, reach past its limit or wrap. A failed
`mms_assert` ends in `<<"aborted">>`; with NDEBUG the code goes on, and both are modelled.

The loop over headers ends at its limit, at a content type, and at any header of which no item is
made (`mms_header.c:115`): an encoded string with charset 0 or no text (`mms_util.c:120`), a number
of the MMS or WSP tables that is not known (`wsp_header_codec.c:89`, with NDEBUG), a number at the
limit. In a message it is then the body that is read from there; in a part, its data, as
`mms_body_part_unpack` does not go to where the header's length says (`cut`).

History variables record where the value of the current header says it ends (`declared`),
that a string ran past the limit in this part (`overran`), that its header loop ended early
(`cut`), and that a sum wrapped.

### 2.4 ByteFormats, MmsCodec and ItemChannel

`ByteFormats` has the encodings, each as `Put...` (the bytes appended) and `Get...` (the value
and the offset behind it, given a limit): short and long integers, variable length integers,
value lengths, texts with their NUL. An `unsigned long` is its sequence of bytes, since TLC's
integers are too small for it; `Then` puts one read behind another. `MmsCodec` has
`PackMms`/`UnpackMms`, `PackWsp`/`UnpackWsp`, `PackHttp`/`UnpackHttp`, content types with their
parameters, parts and the body. The loops over parameters, items and parts are recursive functions
of the number of turns (`ParamsTurn`, `ItemsTurn`, `PartsTurn` are one turn each). One program
packs up to `MaxItems` items and, for a message, its content type and body (`PackItem`,
`PackMessage`, `Close`); another unpacks them one by one from the offset it is at
(`UnpackItem`, `UnpackMessage`, `EndItems`). A branch a packer calls impossible ends in stage
`aborted`, and so does a failed unpacking. `ItemChannel` promises that the items arrive as they
were and in order; the refinement reads an item by what it says (`Means`): charset 0 is no
charset, the file name of a content type is written and not read back, the content type of a
part is written in front of the part's headers.

What can be read again is defined next to the properties (`CanRead` of items, `CanReadMessages` of
messages): texts without NUL, which begin at 0x20 or above where a reader would take a smaller byte
for a value length (a packer does not mark them), and between 0x20 and 0x7f where it would take
one for a number; longs of at most four bytes below 2^31, without leading zero; charsets other than
128; a retrieve text as text (a status as it was unpacked is the run `codec_status`); bodies of up
to 30 parts, parts and headers shorter than 2^28. All that the passing run packs is of this kind, which TLC
checks (`MCCanRead`), and the theorems suppose it of whatever is packed.

### 2.5 MmsList and ListSequence

The nodes are memory: a node that was freed keeps its links and may be allocated again. Each
turn of a walk (`remove`, `erase`, `find`, `nth`, `length`, `foreach`, `destroy`) is a step.
`order` is the history of which nodes are in use; every other variable is a field of the code.
`ListSequence` is what callers rely on: adding takes a datum over, removing hands back the
first that compares equal or frees it, never both, and visiting goes through them in order.

### 2.6 MmsHeader and HeaderFields

`items` is the list; a setter, `Erase`, `Pack` and `Unpack` are each one action, and a composer
(`CreateSendReq`, `CreateDeliveryAck`) is the whole sequence of setters it calls. Packing moves
the content type to the end, as the code does, and reading stops at it. `SetHeader` is
`mms_set_header_string`, `_long` and `_time`, which take any name (`Open`, of which nothing is
assumed), those of the protocol and Content-Type included: an item of the same type gets the new
value in its place, one of another type goes to the end (`mms_header.c:216`). `moved` is the history
of which protocol fields a caller has moved in that way, or erased. A Content-Type set as a string
is kept here as the string it is; the packer of the code takes it for a content type object, which
is not a call it is made for. The abstract
specification is a map: a name shows what it was set to last. A name that came more than once in
a received header is beyond that promise (`Unknown`).

### 2.7 MmsTransaction

The calls of `mms_transaction.c` start a request of `HttpTransaction`, which the module extends,
and, when that returns, unpack what came. A step of the HTTP module is a step here
together with `KeepMemory`: what it does to the bytes of `resp_buffer`'s block. The header of a
send confirmation owns its bytes, the parts of a received message are offsets into that block
(`recvData`), and `Message` is what the application reads through them now. What a send posts is
the caller's message, of which the module says nothing: `mms_fix_nokia`, which takes the Date of
its parts away before it is packed, changes no state that is modelled here.

### 2.8 MmsSmil and Presentation

A document is the sequence of elements and attributes that expat reports. Each setter is an
action; `Pack` writes the document (`mms_smil_dump_xml`), `Unpack` reads it by the handlers,
`Visits` being the way a handler walks over its attributes: two on after a name it knows, else
one, onto a value. Media elements of a received document may be spelled as the table of
`mms_smil.c:908` has them ("Img", "Audio", "Text" too), and a src that is empty counts as one that
is there: it clears the file name and what a cid had set. `Receive` reads a document of another program and mends its cids.
`Presentation` is what an application keeps in a SMIL; `saved` there is what a document says.
The passing run has sizes of 0 to 131071, titles that are no attribute's name, no text with a
character XML wants escaped, and no second received document into one SMIL. The screen size is
not in the abstraction, since none set is written as 100% and read as 100 pixels. The author (`:233`, `:716`), which only a received document sets and no getter shows, is
left out: of it too, a text with a character XML wants escaped would cut the written document.

What the module assumes of its constants: what the setters are given are texts and sizes of those
ranges (`SmilAssumption`); a received document is well formed for its handlers, that is no name a
handler knows is an element's last attribute value, a meta has a name and a content, and the sizes
of a region keep off the bit that marks a percentage (`WellFormed`); and no part of a received
message is named like a cid (`DocumentsAssumption`). `Received` is what the abstraction may come
to show by a received document (`ReceivedAssumption`), and `WordsAssumption` says that the words of
the language are texts, which the provers do not know of a literal.

### 2.9 MmsCompose

`pars` is the list of pars of the SMIL, each with the file name shown in each of three
slots; `parts` the list of body parts, each with the names it answers to
(`mms_body_part_compare_by_name` tries Content-Location, name and filename). An action is a
whole call of the facade, with everything it calls: `ParSet` is `MMS_PAR_SET_FILE`, that is
`MMS_ERASE_FILE`, `mms_add_body_part` and `mms_smil_par_set_xxx`, and the alternative in
which the file cannot be read, after the old one is gone. `ParSetToShown` is the same call
with a pointer that a getter handed out, which the erase has changed under the caller.
`Receive` takes a document, parts and a SMIL whose sources are names or cids, through the
mending of `mms_body_unpack`. `WithoutAttachments` is the loop of `mms_erase_all_attachments`,
a turn for each attachment of a list that was taken before the first of them goes.

`mms_get_file_name` is the constant `FileName`, a table. It takes what is behind the last `/`,
and only if there is none what is behind the last `\` (`mms_util.c:341`), so that the file name
of `a/b\c` is `b\c`, whose own file name is `c`. `ComposeAssumption` has no such path: the
file name of a file name is itself. The application is also assumed not to name a file as the
library names its text buffers (`mms_%d.txt`), nor by a Content-ID.

What the properties suppose of a received message is `Ordinary`: each part has a name without
a directory, no other part answers to it, whatever else the part answers to (a Content-ID) is
no file's name, and a slot that shows a file shows a part's name. The code asks for none of
this, and each is needed: with two names to a part, or two parts to a name, the message does
lose consistency (section 4). Both received messages of the run are `Ordinary` (`MCOrdinary`); a
part without any name is in the phase `aborted` and the run `compose_nameless`.

### 2.10 MmsNotify

A clock, a message with date and expiry, and the notification the receiver keeps of it. What
the MMSC tells of date and expiry is its own business: either may be missing (`Notify`). `Ask`
is the getters with `time(NULL)`.

## 3. What is checked

A run is TLC on an `MC` module with a `.cfg` (`tlc -config MCMmsCodec.cfg MCMmsCodec`); the
pairs are in `PROJECT.json`, "runs". Twelve runs; ten must hold and two show a statement of the code violated (section 4).

| Run | States | Bounds |
|---|---|---|
| `http` | 186 894 | two calls, requests of 2 units, bodies of 1, pieces of 2, one failed `send`; four heads: the usual one, without fields, with LF, of another version with the length in another case |
| `transaction` | 565 962 | two calls, requests of 1 unit, bodies of 2, pieces of 2, length spelled as the loop looks for it or not, line ends CR LF or LF, two content types |
| `output_buffer` | 48 281 | 3 byte values, 3 bytes of data, initial memory of 1 or 3 cells, 2 transactions |
| `unpack` | 404 432 | `size_t` of 16 values, messages of 4 and 10 bytes, 2 limits, 2 parts, lengths 0, 1, 3 and 15 (wraps) |
| `codec` | 86 156 | two items of every kind, then content type and parts; texts of 2, 28 and 29 bytes, numbers and charsets around each change of encoding, up to 30 parts, data of 0, 3 and 128 bytes |
| `list` | 475 661 | 3 nodes, 3 data of which two share a name, indices 0, 1, 3 |
| `header` | 42 027 | 11 names, of which a protocol field and Content-Type are set by name with any type, and From by its own setter; one text, one charset, four received headers, two of them with a repeated name |
| `compose` | 37 088 | 2 pars, 2 files of one name and a name without a file, one generated text, two received messages |
| `smil` | 95 352 | 2 pars, 3 edits, 2 spellings of one region, sizes 0, 65535 and percents, one foreign document |
| `notify` | 1 607 | a clock of 8, offsets 1 and 3, a receiver's limit of 4 |
| `codec_status` | violation | a retrieve status as unpacked, packed again |
| `compose_nameless` | violation | a received part of which nothing is said |

**http.** `SentWithoutGap`: a request reported as sent has every unit, in order, each error
repeating one and skipping none. `ChunkPutOnce`: received bytes are in `resp_buffer` once and
in order, except that the expiry of a later wait repeats the last piece. `StopsAtBoundary`:
when the loop ends by the count, the connection stands at the start of a response, even after
calls that timed out; only two responses of different line ends in one buffer may confuse it.
`AnswersFirst`: a request that received anything reports the status its first bytes give, or none,
never the code of the call before. `AnswersThisCall`, `ContentIsBody`: a call that found nothing owed reports
the status of its own answer, or none if that is not of HTTP/1.1, and, if it ended by the count,
exactly its body; behind an LF head, two bytes of the head and the body. `UndefinedOnlyWithoutHead`:
the unchecked `body_start` is reached only if the head of the answer did not come or has no
fields. `CallReturns`: every call returns. Two calls are enough for a call to
meet what one before it left; a third could only meet the same kinds of debt. A request of
two units has a first and a last one and can be sent in one piece, in two, or with an error
before, between or after them; two units of response per `recv` cut it at every place.

**transaction.** `HandsOutAnswer`: a call that found nothing owed and whose answer came in full
hands out as many bytes as that answer announced, and they are its PDU, even where the read loop
missed the length, waited out its time and put the last chunk twice; behind an LF head they begin
two bytes early, and the last two of the PDU are missing. `DataKeptUntilBytes`: the message handed out reads the same until
a byte of a later response has come, through calls that were not sent or not answered.
`ResultsKept`: a failing call leaves what earlier ones handed out. The first body unit is the
PDU's header and the second a part's data; one unit of request is enough, as `http` has the
cutting of requests.

**output_buffer.** `TypeOK`, `RoomForTerminator`, `NoGarbage` and `ImplementsSavepointText`. The
memory starts with one cell so that it grows several times within three bytes; the depth of
two transactions has an outermost, an inner and a refused one.

**unpack.** `ReadsInMemory`, `LimitsBalanced` (no limit of a value or part header is left when
the next header of the message, or data, is read), `ValueEndsWhereDeclared` (the header after
a `From` or an encoded string is found where the length says, even if a string ran over or an
inner length claims more), `DataInMessage` (data lies in the message, begins where the header's
length says unless a header of it made no item, never behind that, and parts do not overlap) and `UnpackEnds`. With a limit of 10 on a message and
lengths of 0, 1, 3 and 15 every length occurs short, exact, too long and wrapping. Two limits is
the deepest nesting the unpackers reach, an encoded string in a From; the code has room for eight.

**codec.** `InStep`: behind every item the unpacker stands where the packer stood, no assertion of
either fails, and all is read. `LengthsTrue`: every value length says how many bytes follow,
which readers of other makers rely on even where this one does not. `ImplementsChannel`: what
arrives is what was packed. Two items in front of a content type are enough for an item to be
read from a wrong place; the values are those on both sides of each boundary.

**list.** `TypeOK`, `LinksAgree`, `ImplementsSequence`, `CallReturns`. Three nodes have a head, a
tail and one between, and a list that fills the memory.

**header.** `WholeIsRead`: nothing a message packs is behind the content type at which it is read.
`ProtocolFirst`: a composed message is packed with message type, transaction id and version in
front, in this order, whatever the caller sets; one of the three that the caller sets with another
type or erases loses its place, and no other does. `ImplementsFields`: a setter changes its own name and no other. One text is enough, since
contents differ by their type (which moves an item) and are compared whole.

**compose.** `ReferencesResolved`, `NothingUnasked`, `OnePartPerName`, `AttachmentsKept`, and the
action property `AtMostOneSlot`: a call that keeps the pars changes at most one slot, and
behind no other name the file. Two pars of three slots are enough for a file shown twice and
shared by two pars, and for an erase in one of them; two paths of one base name are the only
way two files can meet.

**smil.** `OneRegionPerName`: spellings of one name stay one region. `ImplementsPresentation`:
what is written and read, into a new SMIL or the one at hand, is what was shown. Three edits
place two regions and a file in one, or fill a slide in front of one that is read.

**notify.** `NeverTooEarly`, `ExpiredForGood`, `Expires`. The limit of thirty days is a constant, 4
here, longer than either offset; eight ticks let every expiry pass.

**Fairness.** `http` and `list` assume weak fairness of the library's steps (`WF_vars(Library)`): a
call is one running thread, and each `select` in it has a time limit, so that some step of it
is enabled whenever it waits. Nothing is assumed of the peer or the application. `UnpackEnds`
assumes weak fairness of the unpacker while its buffer is live: one thread that waits for
nothing. Two exceptions are part of the property: the parameter loop of a content type whose
length passes the limit (`mms_content_type.c:124`) spins, as reads at the limit do not move the
offset (`Spinning`); and after a sum has wrapped the offset may go back, and with it the loop
over headers. `Expires` assumes that the clock goes on (`WF_vars(Tick)`) up to its bound. The
safety properties need no fairness; `transaction` states none, as its liveness is that of
`http`.

`CHECK_DEADLOCK FALSE`: in all models the system may stop. The application need not make
another call, the bounds on calls, texts, edits and the clock are reached, a failed assertion
or undefined behaviour ends the process, and a channel has delivered all.

## 4. What the code does not keep

Two runs each check one assertion of the code that the code breaks.

* `codec_status`: `mms_header_codec.c:391` asserts that a retrieve status which is neither a
  short integer nor a text is impossible. The packer's default case (`:626`) writes the status
  that was unpacked, 128 or more, as a long integer: a retrieved message that is saved cannot be
  loaded.
* `compose_nameless`: `mms.c:615` asserts that a part has a name when attachments are listed. A
  received part with neither location, name, file name nor Content-ID has none.

The passing runs exclude, by a precondition or an exception in the property, other places where
the code does not do what one would expect:

* numbers: a charset of exactly 128 is counted as one byte and put as two
  (`mms_output_buffer.c:163`); dates of 2^31 and more come back negative
  (`mms_input_buffer.c:304`); from 31 parts on the count is read wrongly (`mms_body.c:146` against
  `:104`).
* HTTP: after a `send` that failed once, a byte is sent twice although the count agrees
  (`mms_socket.c:134`, `http_transaction.c:331`); if the peer closes early the getter returns the
  announced length, and behind a head whose lines end in LF the content begins at the blank line and
  is two bytes longer than that (`:387`, an assertion that the two agree, commented out; `:179`); a
  whole head without fields is not found, and what is done with its `body_start` is undefined
  (`:177`); an answer that is not of HTTP/1.1 is OK with the code 0, or for `send_file` with the
  code of the call before (`:159`); a request whose answer never begins, because the peer closes,
  may find in the cleared buffer the answer before, and is OK with its code (`:157`).
* buffers: with all transaction slots taken, the rollback of a refused begin takes back the
  caller's (`mms_output_buffer.c:397`); the library's own callers do not nest that deep.
* messages: a received part with two names is an attachment under one and shown under the other
  (`mms.c:579`); a part located by an url is listed under a name by which no call finds it
  (`mms_body_part.c:289`); a received message with a slot by cid and a part without Content-ID
  ends the process (`mms_smil.c:281`); of a repeated header name the getter finds the first
  (`mms_header.c:171`); the default compare of a list
  sees the low halves of pointers (`mms_list.c:53`).
* SMIL: texts are written without XML escapes (`mms_smil.c:180`); a title that is named like an
  attribute is taken for one (`:695`); a screen that was not set is written as 100% and read as
  100 pixels (`:696`).
* urls: the first "@" and "://" count wherever they are, so an url whose path holds one names
  another host (`mms_util.c:418`).

## 5. What is proved

By TLAPS, for every value of the constants under the assumptions named in the modules.

`MmsBytes_proofs`, of `MmsOutputBuffer`, from `OutputBufferAssumption` (the terminator is a byte, fresh memory
holds none, what is put is not empty, sizes are natural numbers and the default is not 0):

* `BufferInvariance`: `BufferInv`, the conjunction of `TypeOK`, `RoomForTerminator`, `NoGarbage` and
  `TransactionsNested`, is inductive. None is alone: the room after a growth follows from the
  length of the memory; that a rollback uncovers no garbage from the nesting of the
  transactions; that the nesting stays, from the data only growing between begins. Each is
  also a theorem of its own (`RoomInvariant`, `NoGarbageInvariant`, `NestedInvariant`,
  `BufferTypeInvariant`).
* `BufferRefinement`: `Spec => ImplementsSavepointText`. The lemmas say that a write at `data_length`
  leaves every front of the memory up to `data_length` as it was (`ExtendMakesRoom`,
  `WriteKeepsData`), so the saved texts, read off the memory of now, do not change.

`MmsBytes_proofs` and `MmsCodec_proofs`, of `MmsCodec`, from `CodecAssumption` (there are items of known
codecs only), with the hypothesis that items and messages can be read again (2.4); any items, texts,
numbers, charsets, content types, parts and data, any number of items and up to 30 parts:

* `CodecInvariant`. The argument has two halves. The first is about bytes alone: wherever the bytes of a
  value lie (`Ahead`), with anything before and behind them, its reader gives the value and stops
  behind them. It goes from the digits of numbers (`VarIntRead`, `MultiBytesRead`) over lengths, texts
  and charsets (`ValueLengthRead`, `EncodedStringRead`) to content types (`ContentTypeRead`), the
  items of each codec (`MmsItemTravels`, `WspItemTravels`, `HttpItemTravels`), parts and the body
  (`PartRead`, `BodyRead`). That a loop over parameters, items or parts reads them all is shown by the
  turn after which it would first have gone wrong, as the provers take no induction over data. The
  second half is the invariant, `CodecInv`: what was sent is laid out end to end in the bytes
  and each offset noted is the end of a piece; what was received is the first of what was sent, as it
  comes; the unpacker stands behind the last of them; and a message closed by a content type and
  a body ends with these. `InStep` alone is not inductive: that the next item ends where the packer
  stood needs its bytes to lie ahead, which needs all before it to have been read whole.
* `CodecsKeepInStep`: `InStep`. No packer's or unpacker's assertion fails, no item is read
  from the middle of a value, and when the unpacker stops everything has been read.
* `ValueLengthsTrue`: `LengthsTrue`. The packer counts a value length before it writes the value
  (`get_encoded_string_bytes`, `get_long_int_bytes`, `get_charset_bytes`), and the count is right to the byte.
* `CodecsImplementChannel`: `CodecSpec => ImplementsChannel`. What a message means is received as it
  was sent and in order; besides `CodecInv` it takes that reading changes an item only in what its
  meaning leaves out, and that once (`SentMeans`).

`MmsMessage_proofs`, of `MmsInputBuffer` and `MmsUnpack`, from `InputBufferAssumption` (messages are shorter than a `size_t` can say,
with what is between them and the next NUL):

* `BufferInvariant`: for any calls, with any lengths, offset and limits stay in the memory of
  the message and the stack in its bound. `BufferInv` adds to the type and `ReadsInMemory` that
  offsets in that memory do not wrap by themselves.
* `UnpackUsesBuffer`: `UnpackSpec => BufferSpec`. The unpackers, over any message, are a
  sequence of such calls between one create and its destroy. `UnpackInv` says that "destroy" is
  the last task and occurs once, so that no task is done on a buffer that is gone.
* `UnpackInMemory`: hence no unpacker starts a read outside the message's memory.
* `StagesInvariant`: the properties of `MmsUnpack` speak of the order of tasks, so the invariant
  says which tasks may be left: `todo` is always a way through an automaton of stages (`Flow`),
  such as `header`, `claimed` (within a value length), `nested`, `inside` (a part's header).
  Each stage says how many limits are pushed and what they are, where the value ends, and where
  the parts lie; `stopped` is the one behind a header that made no item. A task that puts others in its place leaves the automaton where it was going;
  one that moves the buffer takes it to the next stage.
* `UnpackTypes`, `LimitsAreBalanced`, `ValuesEndWhereDeclared` and `PartsInMessage` are read off it:
  the type invariant, `LimitsBalanced`, `ValueEndsWhereDeclared` and `DataInMessage`.

`MmsList_proofs`, from `ListAssumption` (NULL is no node, an empty cell no datum; any nodes,
data and names):

* `Invariance`: the conjunction of `TypeOK`, `LinksAgree`, `WalkInOrder` and `OwnedOnce`. Removing in
  mid-walk keeps the links only because the walk stands in the order (`WalkInOrder`), and what
  is removed leaves the list only because each datum is in it once (`OwnedOnce`). Each conjunct
  is a theorem of its own.
* `Refinement`: `Spec => ImplementsSequence`: the step of a walk that finds its datum is the
  abstract call, all others are stutters, whatever the compare function answers.

`MmsHeader_proofs`, from `HeaderAssumption` (the names the library itself uses are names, there are
texts and content types, and what stands for no content is none; any names may be set by a caller with
any type, and received headers are any sequences of items):

* `Invariance`: `TypeOK`, `ContentTypeOnce` (a header that ends at its content type has one),
  `EndsWithContentType` (after packing it is the last) and `Leads`. From it `AllRead` (`WholeIsRead`) and
  `ProtocolFirstInvariant`. `Leads` is what makes the order inductive: of a composed header each
  protocol field that was not moved is there once, and all in front of it are earlier ones of
  them (`InFront`), or the content type until the first packing, as packing takes that away to the
  end. Setting one of them to another type or erasing it takes it out of `Kept` and closes the gap
  (`ErasedFront`); what goes to the end is in front of none (`WithFront`).
* `Refinement`: `Spec => ImplementsFields`.

`MmsTransaction_proofs`, from `HttpAssumption` (lengths and bounds are positive numbers) and
`TransactionAssumption` (MMS is one of the content types). Of `HttpTransaction`, for any set of heads:

* `Invariance`, `TypesInvariant`: `IInv` is the type invariant with texts of units as a peer sends
  them, a number for each running call, and the failed sends of a call among all of them.
* `ChunkPutOnceInvariant`, from an invariant of the loop alone.
* `AnswersFirstInvariant`, of the code a request reports. That an answer is parsed from the start of
  `resp_buffer` is not local: the buffer is emptied and its bytes stay. `ReadInv` ties what is parsed
  to what this call received (`TextBegins`), and the cleared code to it (`ParseReports`).
* `SentWithoutGapInvariant`. `Out` says that the units of the current request are a last part of
  what has gone up, that each is at most one ahead of the one before it, and that there is one
  more than the loop has counted for each time `send` failed.
* `StopsAtBoundaryInvariant`. `StreamInv` is about what a call has received followed by what it
  has not read: within a response each unit is followed by its next (`Linked`), behind its last there
  is a status line or nothing (`Bounded`), and none is cut off while the peer has not closed
  (`Whole`). If the line ends are all alike (`Alike`), the blank line that the loop finds is the first
  one behind the length (`HeadEndIs`), so that a call that ends by the count has received up to
  the end of a response, whatever responses and pieces of them came before.
* `CleanCallsReceiveTheirAnswer`: a call that found nothing owed receives a beginning of its own
  answer (`OwnAnswer`), and all of it if it ended by the count (`CleanStream`). `CleanHead` says what
  the parser then finds in a head with fields: the first line end, the blank line and the one
  length; a head without them is not found (`ParseUndefined`). From these `AnswersThisCallInvariant`,
  `ContentIsBodyInvariant` and `UndefinedOnlyWithoutHeadInvariant`.

Of `MmsTransaction`:

* `TransactionsAreHttp`: `TransactionSpec => Spec`. The calls of `mms_transaction.c` use those of
  `http_transaction.c` as that module lets an application use them, so every theorem above holds
  under an MmsTransaction too; the proofs below use them. `CallInv` says that a busy transaction is
  in a request and that the library does nothing by itself otherwise.
* `DataKeptUntilBytesInvariant`: `MemoryStays` says that steps that receive nothing leave the
  block alone, the emptying of `resp_buffer` included, and `ReadSince` that a read loop
  which was entered has received bytes.
* `HandsOutAnswerInvariant`, from `MemoryHolds` (the block begins with `resp_buffer`, whatever
  it held before), `HeadFound` (the content is where the head of the answer puts it) and, of the HTTP
  theorems, that a clean call receives the beginning of its own answer and each chunk once but
  the last. The step that returns OK is where they meet: the bytes from `content` on, as many as the
  head said, are those of the body or, with LF, of its blank line and the body but two, and a chunk put
  twice lies behind them.
* `ResultsKeptHolds`, an action property.

`MmsSmil_proofs`, from the assumptions in 2.8; any documents, names, files, numbers of regions and
pars, edits and elements:

* `OneRegionPerNameInvariant`: for any `Marked`, so also when documents are cut off at a text without
  escapes. `Good` is a typed SMIL with one region per name, cids in the file name of audio only.
* `PresentationKept`: `Spec /\ []Unmarked => ImplementsPresentation`, where `Unmarked` says that
  the parser sees all of the document last written. The hypothesis is what section 4 says
  of titles with an ampersand: without it the code loses the slides. `ImplementsPresentationHolds` is
  the case that no text is marked. The invariant `SmilInv` adds to `Good` that the document last written,
  if any, is `DumpXml` of some good SMIL that shows what `written` says: the SMIL itself may
  have changed since. That reading such a document gives that view is proved handler by handler: which of
  its attributes a handler visits when an element is as the writer writes it (`VisitsIs`),
  sizes and percentages back from their tokens, one region, all regions, one par with its files, all
  pars (`DocumentRead`). The handlers' loop is a recursive function; that reading two documents in a row is
  reading the one and then the other (`UnpackedJoined`) is shown by the least element where it would fail.

And there, of `MmsNotify`, from `NotifyAssumption` (offsets and limits are positive):
`NotifyInvariance` of types, the expiry as meant (`SetAsMeant`), a date never ahead of the clock
(`Dated`), a notification that tells what the message says or nothing (`ToldOrNot`) and what was
found expired (`LateFixed`); from it `NotifyTypesInvariant`, `ReadAsMeantInvariant`,
`NeverTooEarlyInvariant` and `ExpiredForGoodInvariant`.

`MmsMessage_proofs`, of `MmsCompose`, from `ComposeAssumption`, with the hypothesis that every received message is
`Ordinary` (2.9); any names, files, numbers of pars and parts:

* `ComposeInvariance`: pars and parts are two lists tied by names alone, and the invariant is that they are
  `Consistent`: one part to a name (`OneName`), a part behind each file that is shown, each part shown
  or attached, and none both shown and attached; with names of generated texts to come free
  (`TextsFree`). Only together are these inductive: that a slot can be emptied without losing
  another's file follows from each part having one name, and that no part is left over from each
  part being shown or attached. A lemma per function of the facade says which names and slots it
  changes; the loop of `mms_erase_all_attachments` is a recursive function, and that it ends with
  no attachment is shown for every turn by way of the least one after which it would not hold.
* `ReferencesResolvedInvariant`, `NothingUnaskedInvariant`, `OnePartPerNameInvariant` and
  `AttachmentsKeptInvariant`, from it.
* `AtMostOneSlotChanges`: the action property. Every step changes at most the one slot it is given,
  and the parts behind the others keep what they are made from.

`SequenceFacts` has the lemmas about removal, concatenation, flattening, least indices and the elements
of sequences that these rest on.

Model-checked only: liveness (`CallReturns`, `UnpackEnds`, `Expires`), which TLAPS does not prove
under fairness.

## 6. What is not modelled

* Layout and wording: the text of the XML, line lengths, dumps, logging.
* Tables of names, content types and charsets, as data; the spelling of a name.
* Files: reading one whole, writing a packed message to one; a file that cannot be read is in
  `MmsCompose`. The host of an url, a pure function over characters (`mms_util.c:400`).
* `mms_xml` and expat beyond what they report; platform headers; the MMS sample port.
* Memory that runs out: the code checks `calloc` in constructors and nothing else; a `realloc`
  that fails (`mms_output_buffer.c:113`) loses the buffer.
* Hazards without a property: microseconds taken for milliseconds, as the model has no measure
  of time (`mms_socket.c:164`); SIGPIPE, which is the application's to handle (`mms_socket.c:130`); a
  setter given the pointer its own getter returned (`mms_header.c:166`, `:254`); an empty text or a
  nameless content type, which the setters refuse (`mms_input_buffer.c:184`,
  `mms_content_type.c:251`); a relative expiry handed out as a time (`mms.c:642`); a buffer used
  after its detach (`mms_output_buffer.c:362`); a text buffer's name that a user's file has
  (`mms.c:524`); a path with `\` behind its last `/`, whose file name is cut again when it is
  looked up (`mms_util.c:341`); transaction ids that start again with the process (`mms_util.c:400`);
  the Dates that `mms_fix_nokia` takes from the parts of the message, gone after a send that
  failed too (`mms_transaction.c`).
* A second received document into one SMIL (`mms_body.c:74`, `mms_smil.c:273`), and NDEBUG
  builds of anything but the unpackers.
