-------------------------------- MODULE Requests --------------------------------
(***************************************************************************)
(* The two places where the native engine looks into the stream of an      *)
(* application: the server name of a TLS client hello                      *)
(* (app/src/main/cpp/tls.c), which goes into the CONNECT request, and the  *)
(* rewriting of HTTP requests for a proxy (http.c).  Both are functions of *)
(* one segment's bytes; `parse` holds the input and the result of a call.  *)
(***************************************************************************)
EXTENDS Integers, Sequences, SequencesExt

CONSTANTS
    Names,       \* host names of a hello, sequences of bytes
    Damages,     \* what may be added to one byte of a hello
    SignedChar,  \* is char signed (x86) or not (arm)
    Fold,        \* tolower, for the characters used
    Methods,     \* the words looked for in their order, each with its space
    HostKey,     \* "Host: "
    HostHeaders, \* how applications write it
    Scheme,      \* "http:"
    Slashes,     \* "//"
    Paths, Hosts, Bodies,    \* parts of a request
    Behind,      \* what memory may hold behind a segment
    MaxHost      \* longest host copied, 511

\* RFC 1035 allows names of 255 bytes at most.
ASSUME NamesAssumption ==
    Names \subseteq Seq(1..255) \ {<<>>} /\ \A n \in Names : Len(n) <= 255
ASSUME DamagesAssumption == Damages \subseteq 1..255
ASSUME CharAssumption == SignedChar \in BOOLEAN
ASSUME MaxHostAssumption == MaxHost \in Nat

VARIABLE parse

\* No name: the hostname stays empty; no new text: patch_http_url returns 0
None == <<>>
AreaFrom(d, from, len) == SubSeq(d, from + 1, from + len)

-----------------------------------------------------------------------------
(***************************************************************************)
(* parse_tls_header.  Positions count from 0, as in the code; a byte that  *)
(* is not in the area handed over is Outside.                              *)
(***************************************************************************)
Outside == 256
At(d, pos)  == IF pos < Len(d) THEN d[pos + 1] ELSE Outside
Two(d, pos) == 256 * At(d, pos) + At(d, pos + 1)

FQDN_MAX == 255
Least(a, b) == IF a < b THEN a ELSE b

\* What strncpy copies, as the string it leaves: up to the first zero
CopiedName(d, pos, len) ==
    LET size == Least(len, FQDN_MAX)
        stop == {k \in 0..size : k = size \/ At(d, pos + k) = 0}
    IN  [k \in 1..(CHOOSE k \in stop : \A l \in stop : k <= l) |-> At(d, pos + k - 1)]

NameUnchecked(d) ==                                                  \* mutant
    LET name[pos \in Nat] ==
            IF pos + 3 >= Len(d) THEN None
            ELSE IF At(d, pos) = 0 THEN CopiedName(d, pos + 3, Two(d, pos + 1))
            ELSE name[pos + 3 + Two(d, pos + 1)]
    IN  name[2]

\* The first entry of type host_name; the list's own length is not looked at
parse_server_name_extension(d) ==
    LET name[pos \in Nat] ==
            IF pos + 3 >= Len(d) THEN None
            ELSE LET len == Two(d, pos + 1)
                 IN  IF pos + 3 + len > Len(d) THEN None
                     ELSE IF At(d, pos) = 0 THEN CopiedName(d, pos + 3, len)
                     ELSE name[pos + 3 + len]
    IN  name[2]

\* Only the first extension of type server_name counts
parse_extensions(d) ==
    LET ext[pos \in Nat] ==
            IF pos + 4 > Len(d) THEN None
            ELSE LET len == Two(d, pos + 2)
                 IN  IF Two(d, pos) # 0 THEN ext[pos + 4 + len]
                     ELSE IF pos + 4 + len > Len(d) THEN None
                     ELSE parse_server_name_extension(AreaFrom(d, pos + 4, len))
    IN  ext[0]

\* Positions behind the fixed part of the hello, each checked before it is read
SessionId    == 5 + 38
Ciphers(d)   == SessionId + 1 + At(d, SessionId)
Compressions(d) == Ciphers(d) + 2 + Two(d, Ciphers(d))
Extensions(d) == Compressions(d) + 1 + At(d, Compressions(d))

\* A record of TLS whose bytes are all in the segment
WholeRecord(d) ==
    /\ Len(d) >= 5
    /\ At(d, 0) = 22
    /\ At(d, 1) >= 3 /\ (SignedChar => At(d, 1) < 128)
    /\ 5 + Two(d, 3) <= Len(d)

parse_tls_header(d) ==
    LET end == 5 + Two(d, 3)
    IN  IF /\ WholeRecord(d)
           /\ 5 + 1 <= end /\ At(d, 5) = 1
           /\ SessionId + 1 <= end
           /\ Ciphers(d) + 2 <= end
           /\ Compressions(d) + 1 <= end
           /\ Extensions(d) + 2 <= end
           /\ Extensions(d) + 2 + Two(d, Extensions(d)) <= end
        THEN parse_extensions(AreaFrom(d, Extensions(d) + 2, Two(d, Extensions(d))))
        ELSE None

-----------------------------------------------------------------------------
(***************************************************************************)
(* find_data and patch_http_url.  text is the segment of n characters with *)
(* what memory holds behind it, which the comparison may look at.          *)
(***************************************************************************)
\* strncasecmp
Matches(text, pos, value) ==
    /\ pos + Len(value) <= Len(text)
    /\ \A k \in 1..Len(value) : Fold[text[pos + k]] = Fold[value[k]]

\* Position of value, or -1.  Compared is where the first character stands as it is
\* written, and at the last position but one, unless the position before it was.
find_data(text, n, value) ==
    LET First(pos) == text[pos + 1] = value[1]
        found == {pos \in 0..(n - 2) :
                    /\ IF pos = n - 2 THEN pos > 0 /\ ~First(pos - 1) ELSE First(pos)
                    /\ Matches(text, pos, value)}
    IN  IF found = {} THEN -1 ELSE CHOOSE pos \in found : \A p \in found : pos <= p

\* The host: up to the end of the line, read behind the segment if it is not in it
HostAt(text, pos) ==
    LET stop == {k \in 0..MaxHost : k = MaxHost \/ text[pos + k + 1] = "\r"}
    IN  AreaFrom(text, pos, CHOOSE k \in stop : \A l \in stop : k <= l)

\* The url is inserted behind the method
Insert(text, n, word, pos, host) ==
    LET pos1 == pos + Len(word)
    IN  AreaFrom(text, 0, pos1) \o Scheme \o Slashes \o host
        \o AreaFrom(text, pos1, n - pos1)

NeverPatched(text, pos1) == FALSE                                    \* mutant
AlreadyPatched(text, pos1) == AreaFrom(text, pos1, Len(Scheme)) = Scheme

\* The first word of the list that occurs anywhere in the segment
FirstWord(text, n) ==
    LET words == {i \in 1..Len(Methods) : find_data(text, n, Methods[i]) >= 0}
    IN  IF words = {} THEN 0 ELSE CHOOSE i \in words : \A j \in words : i <= j

patch_http_url(data, behind) ==
    LET text == data \o behind
        n    == Len(data)
        host == find_data(text, n, HostKey)
        word == Methods[FirstWord(text, n)]
        pos  == find_data(text, n, word)
    IN  IF host = -1 \/ FirstWord(text, n) = 0 THEN None
        ELSE IF AlreadyPatched(text, pos + Len(word)) THEN None
        ELSE Insert(text, n, word, pos, HostAt(text, host + Len(HostKey)))

-----------------------------------------------------------------------------
(***************************************************************************)
(* What applications send: hellos and requests.                            *)
(***************************************************************************)
Big(n) == <<n \div 256, n % 256>>
Joined(pieces) ==
    LET upto[i \in 0..Len(pieces)] == IF i = 0 THEN <<>> ELSE upto[i - 1] \o pieces[i]
    IN  upto[Len(pieces)]

\* A name list entry, of type 0 (host_name) or another; an extension of type 0
\* (server_name) with its entries, or another one
Entries == [type : {0, 1}, name : Names]
Lists == {<<>>} \cup {<<e>> : e \in Entries} \cup {<<e, f>> : e, f \in Entries}
OtherExtension == [type |-> 16, list |-> <<>>]
Hellos == [session : {0, 1}, exts : {<<>>} \cup
             {<<[type |-> 0, list |-> l]>> : l \in Lists} \cup
             {<<OtherExtension, [type |-> 0, list |-> l]>> : l \in Lists}]

EntryBytes(e) == <<e.type>> \o Big(Len(e.name)) \o e.name
ExtensionBytes(x) ==
    LET list == Joined([i \in 1..Len(x.list) |-> EntryBytes(x.list[i])])
        data == Big(Len(list)) \o list
    IN  Big(x.type) \o Big(Len(data)) \o data

Hello(h) ==
    LET exts == Joined([i \in 1..Len(h.exts) |-> ExtensionBytes(h.exts[i])])
        body == <<1>> \o [i \in 1..37 |-> 0]
                \o <<h.session>> \o [i \in 1..h.session |-> 9]
                \o <<0, 2, 19, 1>> \o <<1, 0>> \o Big(Len(exts)) \o exts
    IN  <<22, 3, 1>> \o Big(Len(body)) \o body

\* A request: method, path, host header and what follows it
HttpRequests == [method : 1..Len(Methods), path : Paths, header : HostHeaders, host : Hosts,
             body : Bodies]
Text(r) == Methods[r.method] \o r.path \o <<"\r">> \o r.header \o r.host \o <<"\r">>
           \o r.body

NoParse == [op |-> "none"]
RequestsInit == parse = NoParse

\* get_sni on a whole hello
ParseHello ==
    /\ parse = NoParse
    /\ \E h \in Hellos :
        parse' = [op |-> "hello", arg |-> h, data |-> Hello(h),
                  res |-> parse_tls_header(Hello(h))]

\* The first segment of a hello only
ParsePart ==
    /\ parse = NoParse
    /\ \E h \in Hellos : \E n \in 0..(Len(Hello(h)) - 1) :
        LET d == AreaFrom(Hello(h), 0, n)
        IN  parse' = [op |-> "damaged", data |-> d, res |-> parse_tls_header(d)]

\* A hello with another value in one byte
ParseDamaged ==
    /\ parse = NoParse
    /\ \E h \in Hellos, x \in Damages : \E i \in 1..Len(Hello(h)) :
        LET d == [Hello(h) EXCEPT ![i] = (@ + x) % 256]
        IN  parse' = [op |-> "damaged", data |-> d, res |-> parse_tls_header(d)]

\* A segment with a request, or with its first n characters
Patch ==
    /\ parse = NoParse
    /\ \E r \in HttpRequests, b \in Behind : \E n \in 1..Len(Text(r)) :
        LET d == AreaFrom(Text(r), 0, n)
        IN  parse' = [op |-> "patch", arg |-> r, data |-> d, behind |-> b,
                      res |-> patch_http_url(d, b)]

RequestsReturn == parse # NoParse /\ parse' = NoParse

RequestsNext == ParseHello \/ ParsePart \/ ParseDamaged \/ Patch \/ RequestsReturn

-----------------------------------------------------------------------------
(***************************************************************************)
(* Properties.                                                             *)
(***************************************************************************)
\* The first host_name of the first server_name extension, None without one
NameOf(h) ==
    LET sni   == {i \in 1..Len(h.exts) : h.exts[i].type = 0}
        list  == h.exts[CHOOSE i \in sni : TRUE].list
        hosts == {j \in 1..Len(list) : list[j].type = 0}
    IN  IF sni = {} THEN None
        ELSE IF hosts = {} THEN None
        ELSE list[CHOOSE j \in hosts : \A k \in hosts : j <= k].name

\* The name in the CONNECT request is the one of the hello, wherever its extension and
\* its entry stand behind parts of variable length (tls.c:130-183).
NameFound == parse.op = "hello" => parse.res = NameOf(parse.arg)

\* Whatever length in a hello is wrong, and wherever the segment ends, a name that is
\* found lies wholly in the segment (tls.c:41, 72, 124, 148-181).
NameIsInside ==
    parse.op = "damaged" /\ parse.res # None =>
        \E from \in 0..(Len(parse.data) - Len(parse.res)) :
            AreaFrom(parse.data, from, Len(parse.res)) = parse.res

Whole == parse.op = "patch" /\ parse.data = Text(parse.arg)

\* Could a word that is looked for begin with the last two characters?
WordAtEnd(d) ==
    \E w \in {HostKey} \cup Range(Methods) : SubSeq(w, 1, 2) = AreaFrom(d, Len(d) - 2, 2)

\* A whole request with a host header is patched the same whatever memory holds behind
\* the segment, unless the segment ends with the beginning of a word (find_data and
\* the copy of the host look there, http.c:99-107, 124-128).
SegmentDecides ==
    Whole /\ parse.arg.header[1] = HostKey[1] /\ ~WordAtEnd(parse.data) =>
        \A b \in Behind : patch_http_url(parse.data, b) = parse.res

\* A patched request is left alone when it comes back, for a part of it that the
\* socket did not take is sent again by the application (tcp.c:309, http.c:189-197).
PatchedOnce ==
    parse.op = "patch" /\ parse.res # None => patch_http_url(parse.res, parse.behind) = None

\* Does a word occur in the body, or begin at its end, that is listed before the method,
\* or a host header when the request's own is not spelled as the code wants it?
OtherWordInBody(r, behind) ==
    \E pos \in 0..(Len(r.body) - 1) :
        \/ \E i \in 1..(r.method - 1) : Matches(r.body \o behind, pos, Methods[i])
        \/ r.header[1] # HostKey[1] /\ Matches(r.body \o behind, pos, HostKey)

\* The url is inserted between the method and the path of a whole request with a host,
\* and of no request with an absolute url - unless such a word occurs in the body, for
\* the words are looked for one after the other in the whole segment (http.c:143-180).
PatchedAtRequestLine ==
    Whole =>
        LET r == parse.arg
            method == Methods[r.method]
        IN  \/ OtherWordInBody(r, parse.behind)
            \/ parse.res =
                  IF r.header[1] # HostKey[1] \/ IsPrefix(Scheme, r.path) THEN None
                  ELSE method \o Scheme \o Slashes \o r.host
                       \o SubSeq(parse.data, Len(method) + 1, Len(parse.data))

\* The name that get_sni hands to the CONNECT request is the name of the hello, and bytes of
\* the segment only, however its lengths are wrong (tls.c:32-183).
NameRead == NameFound /\ NameIsInside

\* patch_http_url gives the proxy the application's request, at the right place, once, and
\* from the segment alone (http.c:117-213), with the exceptions its three parts name.
RequestPatched == SegmentDecides /\ PatchedOnce /\ PatchedAtRequestLine
=============================================================================
