---------------------------- MODULE NginxModules ----------------------------
(***************************************************************************)
(* The modules of nginx_module/norahtest: the content handlers with the    *)
(* access handlers and filters around them, the callbacks of myupstream,   *)
(* the fields that mysubrequest takes out of a reply, and the memory pool  *)
(* of ngx_pool/ngx_palloc.cpp. The four parts are independent.             *)
(***************************************************************************)
EXTENDS Integers, Sequences, SequencesExt, FiniteSets, FiniteSetsExt

-----------------------------------------------------------------------------
(***************************************************************************)
(* The content handlers of nginx_module/norahtest (myhelloworld, mytest,   *)
(* myreadbody, mydownloadfile and myupstream), the access handlers of      *)
(* myvariable and myvariablenew that run before them, and the filters of   *)
(* myfilter that what they send goes through: one request, from the access *)
(* phase to the last reference.  nginx itself is external: a request has a *)
(* count of references, which every finalisation lowers, and it is freed   *)
(* with its pool when the count reaches 0; ngx_http_read_client_request_   *)
(* body adds a reference, and calls back at once when the body is there.   *)
(***************************************************************************)

CONSTANTS PrefixLen,     \* the length of filter_prefix
          Lens,          \* lengths of files and of pieces of a proxied response
          MaxPieces

VARIABLES contentHandler, method, enable,  \* the location's handler, the request's method, add_prefix on
          allow, allownew,           \* the location's configuration of myvariable and of myvariablenew
          addr, chrome,              \* the request's $remote_addr, and its headers_in.chrome
          pc, returned,              \* what runs, and whether the content handler has returned
          count,                     \* r->main->count
          contentStatus, length,     \* r->headers_out
          header, only,              \* the length sent in the header, and r->header_only
          ctx,                       \* of myfilter: 0 none, 1 the prefix is to be added, 2 it was
          body,                      \* what was sent: the prefix and pieces, as <<kind, length>>
          file, contentCleanup,      \* the file of mydownloadfile, and whether the pool closes it
          complete,                  \* the last output succeeded
          contentMet

Handlers == {"hello", "mytest", "readbody", "download", "upstream"}
Responded == 3     \* the length of a literal response
Unsent == -2
Unknown == -1      \* content_length_n of a response whose length is not known

contentVars == <<contentHandler, method, enable, allow, allownew, addr, chrome, pc, returned, count, contentStatus, length, header, only, ctx, body, file, contentCleanup, complete, contentMet>>
request == <<contentHandler, method, enable, allow, allownew, addr, chrome>>

-----------------------------------------------------------------------------
(* The configuration of a location *)

\* ngx_conf_merge_value of add_prefix, where -1 is NGX_CONF_UNSET
merge_conf(prev, conf) == IF conf # -1 THEN conf ELSE IF prev # -1 THEN prev ELSE 0

Directives == {"absent", "noVariable", "equals1"}    \* "$variable 1", or not a variable that exists

\* ngx_http_myallow and ngx_http_myallownew: index -1 is a location without the directive
myallow(d) == [ok |-> d # "noVariable", index |-> IF d = "equals1" THEN 0 ELSE -1, equalvalue |-> IF d = "equals1" THEN "1" ELSE ""]

ContentInit ==
    /\ contentHandler \in Handlers /\ method \in {"GET", "HEAD", "POST", "PUT"} /\ \E prev, conf \in {-1, 0, 1} : enable = (merge_conf(prev, conf) = 1)
    /\ \E d \in Directives, dnew \in Directives : allow = myallow(d) /\ allownew = myallow(dnew)
    /\ addr \in {"1", "2"} /\ chrome \in BOOLEAN
    /\ pc = (IF allow.ok /\ allownew.ok THEN "access" ELSE "refused")      \* nginx does not start with an error
    /\ returned = FALSE /\ count = 1 /\ contentStatus = 0 /\ length = Unknown /\ header = Unsent /\ only = FALSE
    /\ ctx = 0 /\ body = <<>> /\ file = "none" /\ contentCleanup = FALSE /\ complete = FALSE /\ contentMet = {}

-----------------------------------------------------------------------------
(* nginx *)

\* ngx_http_finalize_request: the pool, with its cleanups, goes with the last reference
Finalize == count' = count - 1 /\ file' = IF count = 1 /\ contentCleanup /\ file = "open" THEN "closed" ELSE file

\* The content handler's result is finalised, whatever it is
Returns ==
    /\ pc = "return" /\ Finalize /\ returned' = TRUE /\ pc' = (IF count > 1 THEN "wait" ELSE "end")
    /\ UNCHANGED request /\ UNCHANGED <<contentStatus, length, header, only, ctx, body, contentCleanup, complete, contentMet>>

-----------------------------------------------------------------------------
(* myvariable and myvariablenew *)

\* ngx_http_ischrome_variable
ischrome == IF chrome THEN "1" ELSE ""

\* ngx_http_myvariable_handler and ngx_http_myvariablenew_handler: declined, so that the request goes on
myvariable_handler == allow.index = -1 \/ addr = allow.equalvalue
myvariablenew_handler == allownew.index = -1 \/ ischrome = allownew.equalvalue

Access ==
    /\ pc = "access" /\ pc' = (IF myvariable_handler /\ myvariablenew_handler THEN "content" ELSE "return")
    /\ UNCHANGED request /\ UNCHANGED <<returned, count, contentStatus, length, header, only, ctx, body, file, contentCleanup, complete, contentMet>>

-----------------------------------------------------------------------------
(* The content handlers, up to the header.  ok is whether what they call succeeds *)

Responds(n) == contentStatus' = 200 /\ length' = n /\ pc' = "header"

\* A literal, for GET and HEAD
Literal(name, ok) ==
    /\ pc = "content" /\ contentHandler = name
    /\ IF method \in {"GET", "HEAD"} /\ ok THEN Responds(Responded) ELSE pc' = "return" /\ UNCHANGED <<contentStatus, length>>
    /\ UNCHANGED request /\ UNCHANGED <<returned, count, header, only, ctx, body, file, contentCleanup, complete, contentMet>>

hello(ok) == Literal("hello", ok)
mytest(ok) == Literal("mytest", ok)

\* The body is there, has to be waited for, or cannot be read
readbody(answer) ==
    /\ pc = "content" /\ contentHandler = "readbody"
    /\ IF method \in {"GET", "HEAD", "POST"} /\ answer # "error"
       THEN count' = count + 1 /\ pc' = IF answer = "there" THEN "callback" ELSE "return"
       ELSE pc' = "return" /\ UNCHANGED count
    /\ UNCHANGED request /\ UNCHANGED <<returned, contentStatus, length, header, only, ctx, body, file, contentCleanup, complete, contentMet>>

BodyArrives ==
    /\ pc = "wait" /\ contentHandler = "readbody" /\ pc' = "callback"
    /\ UNCHANGED request /\ UNCHANGED <<returned, count, contentStatus, length, header, only, ctx, body, file, contentCleanup, complete, contentMet>>

\* ngx_http_myreadbody_body_handler, up to its header
bodyHandler ==
    /\ pc = "callback" /\ Responds(Responded)
    /\ UNCHANGED request /\ UNCHANGED <<returned, count, header, only, ctx, body, file, contentCleanup, complete, contentMet>>

\* fails before the file is open, in ngx_file_info or in ngx_pool_cleanup_add, which leave it open
download(fails, n) ==
    /\ pc = "content" /\ contentHandler = "download"
    /\ IF method \in {"GET", "HEAD"} /\ fails # "early"
       THEN /\ file' = "open" /\ contentCleanup' = (fails = "none") /\ contentMet' = contentMet \cup ({fails} \ {"none"})
            /\ IF fails = "none" THEN Responds(n) ELSE pc' = "return" /\ UNCHANGED <<contentStatus, length>>
       ELSE pc' = "return" /\ UNCHANGED <<file, contentCleanup, contentMet, contentStatus, length>>
    /\ UNCHANGED request /\ UNCHANGED <<returned, count, header, only, ctx, body, complete>>

upstream(ok) ==
    /\ pc = "content" /\ contentHandler = "upstream" /\ pc' = "return" /\ count' = (IF ok THEN count + 1 ELSE count)
    /\ UNCHANGED request /\ UNCHANGED <<returned, contentStatus, length, header, only, ctx, body, file, contentCleanup, complete, contentMet>>

\* The upstream's header is parsed: any status, and a length or none
UpstreamAnswers(s, n) ==
    /\ pc = "wait" /\ contentHandler = "upstream" /\ contentStatus' = s /\ length' = n /\ pc' = "header"
    /\ UNCHANGED request /\ UNCHANGED <<returned, count, header, only, ctx, body, file, contentCleanup, complete, contentMet>>

-----------------------------------------------------------------------------
(* myfilter *)

\* What ngx_http_myfilter_header_filter makes of content_length_n
Lengthened(n) == IF n > 0 THEN n + PrefixLen ELSE n

\* ngx_http_send_header through ngx_http_myfilter_header_filter, which may find no memory
SendHeader(ok) ==
    LET prefixes == contentStatus = 200 /\ ctx = 0 /\ enable
    IN  /\ pc = "header" /\ pc' = (IF ok THEN "sent" ELSE "unsent")
        /\ ctx' = IF prefixes /\ ok THEN 1 ELSE ctx
        /\ length' = IF prefixes /\ ok THEN Lengthened(length) ELSE length
        /\ header' = IF ok THEN length' ELSE header
        /\ only' = (ok /\ method = "HEAD")
        /\ contentMet' = IF prefixes /\ length = 0 THEN contentMet \cup {"empty"} ELSE contentMet
        /\ UNCHANGED request /\ UNCHANGED <<returned, count, contentStatus, body, file, contentCleanup, complete>>

\* ngx_http_myfilter_body_filter: the prefix goes before the first piece
Filter(piece) ==
    /\ body' = body \o (IF ctx = 1 THEN <<<<"prefix", PrefixLen>>, piece>> ELSE <<piece>>)
    /\ ctx' = IF ctx = 1 THEN 2 ELSE ctx

-----------------------------------------------------------------------------
(* The handlers, after the header *)

\* myhelloworld, mytest and mydownloadfile stop after an error or for HEAD; a buffer may be missing
AfterHeader(ok) ==
    /\ pc \in {"sent", "unsent"} /\ contentHandler \in {"hello", "mytest", "download"}
    /\ pc' = (IF pc = "unsent" \/ only \/ ~ok THEN "return" ELSE "body")
    /\ UNCHANGED request /\ UNCHANGED <<returned, count, contentStatus, length, header, only, ctx, body, file, contentCleanup, complete, contentMet>>

\* myreadbody finalises the request after an error or for HEAD, and goes on
AfterHeaderGoesOn ==
    /\ pc \in {"sent", "unsent"} /\ contentHandler = "readbody" /\ pc' = "body"
    /\ IF pc = "unsent" \/ only
       THEN Finalize /\ contentMet' = contentMet \cup {"goesOn"}
       ELSE UNCHANGED <<count, file, contentMet>>
    /\ UNCHANGED request /\ UNCHANGED <<returned, contentStatus, length, header, only, ctx, body, contentCleanup, complete>>

\* It does so, too, without a buffer, and then writes to it
NoBuffer ==
    /\ pc = "body" /\ contentHandler = "readbody" /\ Finalize /\ pc' = "crashed" /\ contentMet' = contentMet \cup {"goesOn"}
    /\ UNCHANGED request /\ UNCHANGED <<returned, contentStatus, length, header, only, ctx, body, contentCleanup, complete>>

\* nginx's upstream stops after an error or for HEAD
AfterHeaderUpstream ==
    /\ pc \in {"sent", "unsent"} /\ contentHandler = "upstream"
    /\ IF pc = "unsent" \/ only THEN Finalize /\ pc' = "end" ELSE pc' = "pieces" /\ UNCHANGED <<count, file>>
    /\ UNCHANGED request /\ UNCHANGED <<returned, contentStatus, length, header, only, ctx, body, contentCleanup, complete, contentMet>>

\* The buffer of the response: the file from its start to its end, or the literal
Buffered == IF contentHandler = "download" THEN header - (IF ctx = 1 /\ header > 0 THEN PrefixLen ELSE 0) ELSE Responded

\* ngx_http_output_filter, and what the handler does with its result
SendBody(ok) ==
    /\ pc = "body" /\ Filter(<<"data", Buffered>>) /\ complete' = (ok /\ ~only)
    /\ IF contentHandler = "readbody" THEN Finalize /\ pc' = (IF returned THEN "end" ELSE "return")
                                      ELSE pc' = "return" /\ UNCHANGED <<count, file>>
    /\ UNCHANGED request /\ UNCHANGED <<returned, contentStatus, length, header, only, contentCleanup, contentMet>>

\* The upstream's response comes in pieces, as long as it said or until it ends
UpstreamPiece(n) ==
    LET got == FoldSeq(LAMBDA p, sum : sum + p[2], 0, body)
        left == header - got - (IF ctx = 1 /\ header > 0 THEN PrefixLen ELSE 0)
    IN  /\ pc = "pieces" /\ Len(body) < MaxPieces /\ n > 0 /\ length # 0 /\ (header # Unknown => n <= left) /\ Filter(<<"data", n>>)
        /\ complete' = (header = Unknown \/ n = left)
        /\ UNCHANGED request /\ UNCHANGED <<pc, returned, count, contentStatus, length, header, only, file, contentCleanup, contentMet>>

\* The end of the response, before any header or after it, when an empty last buffer goes through the filter
UpstreamEnds ==
    /\ pc \in {"wait", "pieces"} /\ contentHandler = "upstream" /\ Finalize /\ pc' = "end"
    /\ IF pc = "pieces" THEN Filter(<<"data", 0>>) ELSE UNCHANGED <<body, ctx>>
    /\ complete' = (pc = "pieces" /\ (complete \/ header \in {0, Unknown}))
    /\ UNCHANGED request /\ UNCHANGED <<returned, contentStatus, length, header, only, contentCleanup, contentMet>>

ContentNext ==
    \/ Returns \/ Access \/ BodyArrives \/ bodyHandler \/ UpstreamEnds \/ AfterHeaderGoesOn \/ NoBuffer \/ AfterHeaderUpstream
    \/ \E ok \in BOOLEAN : hello(ok) \/ mytest(ok) \/ upstream(ok) \/ SendHeader(ok) \/ AfterHeader(ok) \/ SendBody(ok)
    \/ \E answer \in {"there", "later", "error"} : readbody(answer)
    \/ \E n \in Lens : UpstreamPiece(n) \/ \E fails \in {"none", "early", "info", "cleanup"} : download(fails, n)
    \/ \E s \in {200, 302}, n \in Lens \cup {Unknown} : UpstreamAnswers(s, n)

-----------------------------------------------------------------------------
\* The references of a request balance: while anything of it runs or is waited for it has one, and at its
\* end it has none; not after myreadbody has finalised it and goes on
ReferencesBalance ==
    "goesOn" \notin contentMet => (pc = "end" <=> count = 0) /\ count >= 0

\* A file that was opened is closed with the request, whichever step failed after it: except where
\* mydownloadfile returns before its cleanup is registered
FilesClosed == count = 0 /\ contentMet \cap {"info", "cleanup"} = {} => file # "open"

\* The header's length is what is sent, with the prefix or without it: not for an empty response, which
\* is given the prefix although its length says nothing is to come
LengthMatches ==
    pc = "end" /\ complete /\ header >= 0 /\ "empty" \notin contentMet => header = FoldSeq(LAMBDA p, sum : sum + p[2], 0, body)

\* The prefix is sent once, before everything else, and exactly with the responses that are to have it,
\* in however many pieces they come
PrefixFirst ==
    "goesOn" \notin contentMet => \A i \in DOMAIN body : body[i][1] = "prefix" <=> (i = 1 /\ enable /\ contentStatus = 200)
-----------------------------------------------------------------------------
(***************************************************************************)
(* The callbacks with which myupstream of nginx_module/norahtest reads the *)
(* answer of the other server: nginx calls process_header whenever more    *)
(* has arrived, and again when it returns NGX_AGAIN because a line is not  *)
(* complete.  A line is a member of Lines, half of one may arrive.         *)
(***************************************************************************)

CONSTANT MaxHeaders

VARIABLES upstreamAnswer, arrived,  \* the lines of the answer, and how many half lines are here
          process_header,        \* "status" or "header", the callback
          zeroed,                \* the context of ngx_palloc happens to be zero
          pos, headers, rc,      \* lines parsed, headers_in.headers, the callback's last result
          upstreamMet

Lines == {"server", "date", "other", "bad"}

upstreamVars == <<upstreamAnswer, arrived, process_header, zeroed, pos, headers, rc, upstreamMet>>

UpstreamInit ==
    /\ \E n \in 0 .. MaxHeaders : \E s \in {"ok", "bad"}, lines \in [1 .. n -> Lines] : upstreamAnswer = <<s>> \o lines \o <<"end">>
    /\ arrived = 0 /\ process_header = "status" /\ zeroed \in BOOLEAN /\ pos = 0 /\ headers = <<>> /\ rc = "again" /\ upstreamMet = {}

-----------------------------------------------------------------------------
Complete == arrived >= 2 * (pos + 1)

\* The callback is called when something has arrived
Arrives(n) ==
    /\ rc = "again" /\ ~Complete /\ n \in arrived + 1 .. 2 * Len(upstreamAnswer) /\ arrived' = n
    /\ UNCHANGED <<upstreamAnswer, process_header, zeroed, pos, headers, rc, upstreamMet>>

\* Wrong on purpose: the callback stays
process_status_lineStays ==
    /\ rc = "again" /\ process_header = "status" /\ Complete /\ pos' = pos + 1
    /\ IF zeroed /\ upstreamAnswer[pos + 1] = "bad" THEN rc' = "ok" ELSE UNCHANGED rc
    /\ UNCHANGED <<upstreamAnswer, arrived, process_header, zeroed, headers, upstreamMet>>

\* A status line that is not one means an answer without headers.  The parser counts digits from what the
\* context holds
process_status_line ==
    /\ rc = "again" /\ process_header = "status" /\ Complete
    /\ \/ upstreamAnswer[1] = "bad" /\ zeroed /\ rc' = "ok" /\ UNCHANGED <<process_header, pos, upstreamMet>>
       \/ upstreamAnswer[1] = "ok" /\ zeroed /\ process_header' = "header" /\ pos' = 1 /\ UNCHANGED <<rc, upstreamMet>>
       \/ ~zeroed /\ rc' \in {"ok", "again"} /\ upstreamMet' = upstreamMet \cup {"garbage"}
          /\ IF rc' = "ok" THEN UNCHANGED <<process_header, pos>> ELSE process_header' = "header" /\ pos' = 1
    /\ UNCHANGED <<upstreamAnswer, arrived, zeroed, headers>>

\* What an answer without them is given at the end
Added(hs) == (IF Contains(hs, "server") THEN <<>> ELSE <<"server">>) \o (IF Contains(hs, "date") THEN <<>> ELSE <<"date">>)

\* One line of the loop of myupstream_upstream_process_header; memory may run out
upstream_process_header(ok) ==
    /\ rc = "again" /\ process_header = "header" /\ Complete
    /\ LET line == upstreamAnswer[pos + 1]
       IN  \/ line = "bad" /\ ok /\ rc' = "invalid" /\ UNCHANGED <<pos, headers>>
           \/ line = "end" /\ ok /\ rc' = "ok" /\ headers' = headers \o Added(headers) /\ pos' = pos + 1
           \/ line \notin {"bad", "end"} /\ ok /\ headers' = Append(headers, line) /\ pos' = pos + 1 /\ UNCHANGED rc
           \/ line # "bad" /\ ~ok /\ rc' = "error" /\ UNCHANGED <<pos, headers>>
    /\ UNCHANGED <<upstreamAnswer, arrived, process_header, zeroed, upstreamMet>>

UpstreamNext == process_status_line \/ (\E n \in 1 .. 2 * Len(upstreamAnswer) : Arrives(n)) \/ \E ok \in BOOLEAN : upstream_process_header(ok)

-----------------------------------------------------------------------------
Times(hs, h) == Len(SelectSeq(hs, LAMBDA x : x = h))

\* However the answer is cut into pieces, each header is put in the list once and in order, and Server and
\* Date are added when they are missing and only then: unless the context holds garbage, for which the
\* parser may take a status line for none
HeadersOnce ==
    rc = "ok" /\ upstreamAnswer[1] = "ok" /\ "garbage" \notin upstreamMet =>
        LET lines == SubSeq(upstreamAnswer, 2, Len(upstreamAnswer) - 1)
        IN  /\ IsPrefix(lines, headers) /\ Times(headers, "other") = Times(lines, "other")
            /\ \A h \in {"server", "date"} : Times(headers, h) = (IF Contains(lines, h) THEN Times(lines, h) ELSE 1)
-----------------------------------------------------------------------------
(***************************************************************************)
(* How mysubrequest of nginx_module/norahtest takes the six fields of a    *)
(* stock out of the reply of its subrequest, in one loop over the          *)
(* characters: a character is a delimiter (a comma or a quote) or not.     *)
(* data and len are those of stock[0] to stock[5]; data[6] is what is      *)
(* written behind the array.  Memory of ngx_palloc holds anything: Unset.  *)
(***************************************************************************)

CONSTANT MaxChars

VARIABLES subStatus, reply, subAt, flag, subData, len, printed, subMet

Unset == -1

subVars == <<subStatus, reply, subAt, flag, subData, len, printed, subMet>>

SubInit ==
    /\ subStatus = 0 /\ reply = <<>> /\ subAt = 0 /\ flag = 0 /\ subData = [i \in 0 .. 6 |-> Unset] /\ len = [i \in 0 .. 5 |-> Unset]
    /\ printed = "no" /\ subMet = {}

\* The subrequest has ended with this status and reply
Replies(s, chars) ==
    /\ subStatus = 0 /\ subStatus' = s /\ reply' = chars /\ subAt' = 1
    /\ UNCHANGED <<flag, subData, len, printed, subMet>>

\* One character: a delimiter ends the field before it and begins one; the seventh begins stock[6], of six
split ==
    /\ subStatus = 200 /\ subAt \in DOMAIN reply /\ flag <= 6 /\ subAt' = subAt + 1
    /\ IF reply[subAt] = "delimiter"
       THEN /\ flag' = flag + 1 /\ subData' = [subData EXCEPT ![flag] = subAt + 1]
            /\ len' = IF flag > 0 THEN [len EXCEPT ![flag - 1] = subAt - subData[flag - 1]] ELSE len
            /\ subMet' = IF flag = 6 THEN subMet \cup {"beyond"} ELSE subMet
       ELSE UNCHANGED <<flag, subData, len, subMet>>
    /\ UNCHANGED <<subStatus, reply, printed>>

Ended == subStatus # 0 /\ (subStatus # 200 \/ subAt > Len(reply) \/ flag > 6)

\* mysubrequest_post_handler of the parent: the status alone, or a text with stock[0], stock[1] and stock[4]
post_handler ==
    /\ Ended /\ printed = "no" /\ printed' = (IF subStatus = 200 THEN "text" ELSE "status")
    /\ subMet' = IF subStatus = 200 /\ flag < 6 THEN subMet \cup {"short"} ELSE subMet
    /\ UNCHANGED <<subStatus, reply, subAt, flag, subData, len>>

SubNext ==
    \/ split \/ post_handler
    \/ \E s \in {200, 404}, n \in 0 .. MaxChars : \E chars \in [1 .. n -> {"delimiter", "x"}] : Replies(s, chars)

-----------------------------------------------------------------------------
\* The delimiters up to position n
Delimiters(n) == {i \in 1 .. n : reply[i] = "delimiter"}

\* A field that has a length is the text between two neighbouring delimiters, and the three that the parent
\* prints have one: unless the reply had less than six delimiters, when it prints what the memory held
FieldsSplit ==
    /\ \A i \in 0 .. 5 : len[i] # Unset =>
          /\ subData[i] - 1 \in Delimiters(subAt - 1) /\ subData[i] + len[i] \in Delimiters(subAt - 1)
          /\ \A j \in subData[i] .. subData[i] + len[i] - 1 : reply[j] # "delimiter"
    /\ printed = "text" /\ "short" \notin subMet => \A i \in {0, 1, 4} : len[i] # Unset
-----------------------------------------------------------------------------
(***************************************************************************)
(* The memory pool of ngx_pool/ngx_palloc.cpp: small requests are cut from *)
(* the blocks of the pool, large ones come from the heap and are listed in *)
(* nodes that are small requests themselves, and cleanup handlers run when *)
(* the pool is destroyed.  Addresses are offsets in a block, counted in    *)
(* half words; a word is two.  posix_memalign may fail, ngx_alloc ends the *)
(* program when malloc fails.  ngx_pfree and ngx_reset_pool are empty, so  *)
(* that no node of the large list is ever used again.                      *)
(***************************************************************************)

CONSTANTS PoolSizes, Requests,
          FailLimit,          \* 4 in the code: a block that failed more often is no longer looked at
          MaxAllocs, MaxFd, MaxFails

VARIABLES pool,               \* the fields of all blocks; given: the regions handed out; heap: allocations not freed
          ngxCleanup,         \* the cleanup list, its head first: [handler, fd]
          owner,              \* of each descriptor: "free", "pool", "other"
          phase, ngxFails, hurt  \* hurt: a handler closed a descriptor that is not the pool's

Align == 2                    \* NGX_ALIGNMENT
PoolHeader == 18              \* sizeof(ngx_pool_t)
DataHeader == 8               \* sizeof(ngx_pool_data_t)
LargeNode == 4
CleanupNode == 6
CleanupFile == 6              \* sizeof(ngx_pool_cleanup_file_t)
Page == 1024                  \* ngx_pagesize

Null == <<>>
NoPool == [size |-> 0, max |-> 0, last |-> <<>>, failed |-> <<>>, current |-> 0, large |-> 0, given |-> {}, heap |-> 0]

ngxVars == <<pool, ngxCleanup, owner, phase, ngxFails, hurt>>

NgxInit ==
    /\ pool = NoPool /\ ngxCleanup = <<>> /\ owner = [f \in 1 .. MaxFd |-> "free"]
    /\ phase = "none" /\ ngxFails = 0 /\ hurt = FALSE

\* posix_memalign for one of several calls of an operation
MayFail(ok) == ngxFails' = ngxFails + (IF ok THEN 0 ELSE 1) /\ ngxFails' <= MaxFails

ngx_create_pool(size, ok) ==
    /\ phase = "none" /\ MayFail(ok)
    /\ IF ok
       THEN /\ pool' = [NoPool EXCEPT !.size = size, !.max = Min({size - PoolHeader, Page - 1}), !.last = <<PoolHeader>>,
                                      !.failed = <<0>>, !.current = 1, !.heap = 1]
            /\ phase' = "live"
       ELSE UNCHANGED <<pool, phase>>
    /\ UNCHANGED <<ngxCleanup, owner, hurt>>

-----------------------------------------------------------------------------
(* Allocation: from pool p to [pool, at], with at = Null when it failed *)

ngx_align_ptr(m) == ((m + Align - 1) \div Align) * Align

Cut(p, b, m, n) == [pool |-> [p EXCEPT !.last[b] = m + n, !.given = @ \cup {<<b, m, n>>}], at |-> <<b, m>>]

\* The blocks behind which current moves; the last one of the list is not asked
Skipped(p) == {b \in p.current .. Len(p.last) - 1 : p.failed[b] > FailLimit}

ngx_palloc_block(p, n, ok) ==
    IF ~ok THEN [pool |-> p, at |-> Null]
    ELSE Cut([p EXCEPT !.last = Append(@, DataHeader), !.heap = @ + 1,
                       !.failed = Append([b \in DOMAIN @ |-> IF b \in p.current .. Len(p.last) - 1 THEN @[b] + 1 ELSE @[b]], 0),
                       !.current = IF Skipped(p) = {} THEN @ ELSE Max(Skipped(p)) + 1],
             Len(p.last) + 1, ngx_align_ptr(DataHeader), n)

\* (size_t)(end - m) >= size: a difference below zero is a large number
Fits(p, b, n) == LET m == ngx_align_ptr(p.last[b]) IN m > p.size \/ p.size - m >= n

ngx_palloc_small(p, n, ok) ==
    LET fit == {b \in p.current .. Len(p.last) : Fits(p, b, n)} IN
    IF fit # {} THEN Cut(p, Min(fit), ngx_align_ptr(p.last[Min(fit)]), n) ELSE ngx_palloc_block(p, n, ok)

LargeWithoutNode(p) == p

ngx_palloc_large(p, n, ok) ==
    LET node == ngx_palloc_small(p, LargeNode, ok) IN
    IF node.at = Null THEN [pool |-> LargeWithoutNode(p), at |-> Null]
    ELSE [pool |-> [node.pool EXCEPT !.large = @ + 1, !.heap = @ + 1], at |-> <<0, 0>>]

ngx_palloc(p, n, ok) == IF n <= p.max THEN ngx_palloc_small(p, n, ok) ELSE ngx_palloc_large(p, n, ok)

Room == Cardinality(pool.given) + pool.large < MaxAllocs

Alloc(n, ok) ==
    /\ phase = "live" /\ Room /\ MayFail(ok)
    /\ pool' = ngx_palloc(pool, n, ok).pool
    /\ UNCHANGED <<ngxCleanup, owner, phase, hurt>>

-----------------------------------------------------------------------------
(* Cleanup handlers *)

\* The user opens a file and registers it with one of the two handlers; without memory they close it again
ngx_pool_cleanup_add(handler, ok1, ok2) ==
    LET free == {f \in DOMAIN owner : owner[f] = "free"}
        c == ngx_palloc(pool, CleanupNode, ok1)
        data == ngx_palloc(c.pool, CleanupFile, ok2) IN
    /\ phase = "live" /\ Room /\ free # {}
    /\ ngxFails' = ngxFails + (IF ok1 THEN 0 ELSE 1) + (IF ok2 THEN 0 ELSE 1) /\ ngxFails' <= MaxFails
    /\ IF c.at = Null \/ data.at = Null
       THEN pool' = c.pool /\ UNCHANGED <<ngxCleanup, owner>>
       ELSE /\ pool' = data.pool /\ owner' = [owner EXCEPT ![Min(free)] = "pool"]
            /\ ngxCleanup' = <<[handler |-> handler, fd |-> Min(free)]>> \o ngxCleanup
    /\ UNCHANGED <<phase, hurt>>

\* ngx_pool_cleanup_file and ngx_pool_delete_file close the descriptor they are given
Closing(fds) ==
    /\ owner' = [f \in DOMAIN owner |-> IF f \in fds THEN "free" ELSE owner[f]]
    /\ hurt' = (hurt \/ \E f \in fds : owner[f] # "pool")

Forgotten(k) == [ngxCleanup EXCEPT ![k].handler = "null"]

\* The first entry of this handler and descriptor; one with ngx_pool_delete_file is not found
ngx_pool_run_cleanup_file(fd) ==
    LET at == {k \in DOMAIN ngxCleanup : ngxCleanup[k] = [handler |-> "close", fd |-> fd]} IN
    /\ phase = "live" /\ at # {}
    /\ Closing({fd})
    /\ ngxCleanup' = Forgotten(Min(at))
    /\ UNCHANGED <<pool, phase, ngxFails>>

ngx_destroy_pool ==
    /\ phase = "live"
    /\ Closing({ngxCleanup[k].fd : k \in {k \in DOMAIN ngxCleanup : ngxCleanup[k].handler # "null"}})
    /\ pool' = [pool EXCEPT !.heap = @ - pool.large - Len(pool.last)]
    /\ phase' = "destroyed"
    /\ UNCHANGED <<ngxCleanup, ngxFails>>

\* Other parts of the program open and close files
Others ==
    \E f \in DOMAIN owner :
        /\ \/ owner[f] = "free" /\ (\A g \in 1 .. f - 1 : owner[g] # "free") /\ owner' = [owner EXCEPT ![f] = "other"]
           \/ owner[f] = "other" /\ owner' = [owner EXCEPT ![f] = "free"]
        /\ phase = "live"
        /\ UNCHANGED <<pool, ngxCleanup, phase, ngxFails, hurt>>

NgxNext ==
    \/ \E size \in PoolSizes, ok \in BOOLEAN : ngx_create_pool(size, ok)
    \/ \E n \in Requests, ok \in BOOLEAN : Alloc(n, ok)
    \/ \E handler \in {"close", "delete"}, ok1, ok2 \in BOOLEAN : ngx_pool_cleanup_add(handler, ok1, ok2)
    \/ \E fd \in 1 .. MaxFd : ngx_pool_run_cleanup_file(fd)
    \/ ngx_destroy_pool
    \/ Others

NgxSpec == NgxInit /\ [][NgxNext]_ngxVars

-----------------------------------------------------------------------------

\* In a pool of aligned size, what ngx_palloc and the pool's own nodes get lies behind the header of its block and before
\* its end, and no two regions overlap.  (For any other size the aligned address may pass the end of the block, and the
\* difference that ngx_palloc_small compares wraps around.)
RegionsApart ==
    pool.size % Align = 0 =>
        /\ \A r \in pool.given : r[2] >= (IF r[1] = 1 THEN PoolHeader ELSE DataHeader) /\ r[2] + r[3] <= pool.size
        /\ \A r, s \in pool.given : r[1] = s[1] /\ r # s => r[2] + r[3] <= s[2] \/ s[2] + s[3] <= r[2]

\* current passes over a block only when it had failed more than FailLimit times before the request that failed again,
\* although blocks are added and counted in the same loop; and of the blocks that are still looked at, none has failed more often than one before it.
PassesOnlyFailed ==
    /\ \A b \in 1 .. pool.current - 1 : pool.failed[b] > FailLimit + 1
    /\ \A b, c \in pool.current .. Len(pool.last) : b < c => pool.failed[b] >= pool.failed[c]

\* The memory on the heap is that of the blocks and of the large list, also after a failed call, and none is left when
\* the pool is destroyed.
HeapExact == pool.heap = IF phase = "destroyed" THEN 0 ELSE Len(pool.last) + pool.large

\* A registered file is closed exactly once, whether earlier with ngx_pool_run_cleanup_file or with the pool, although
\* its number may meanwhile belong to another file.
ClosedOnce == ~hurt /\ (phase = "destroyed" => \A f \in DOMAIN owner : owner[f] # "pool")
=============================================================================
