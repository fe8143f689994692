---------------------------- MODULE HttpCookies ----------------------------
(***************************************************************************)
(* The cookie jar of layer2/src/http.cpp: parse_set_cookie, upsert_cookie, *)
(* the jar file and build_cookie_header, over a sequence of requests.  A   *)
(* host is a sequence of labels and a path a sequence of characters, so    *)
(* that suffixes and prefixes are those of the code.                       *)
(***************************************************************************)
EXTENDS Naturals, Sequences, SequencesExt

CONSTANTS Urls,        \* [https, host, path] of the requests
          SetCookies,  \* [name, value, domain, path, secure] headers received
          MaxRequests  \* bound on the requests of a behaviour

VARIABLES jar,       \* the cookie jar file: a sequence of CookieEntry
          lastUrl,   \* the url of the last request
          received,  \* the Set-Cookie headers of its response, in order
          requests

cookieVars == <<jar, lastUrl, received, requests>>

Empty == <<>>    \* an attribute that is absent and a value that is empty

CookiesInit == jar = <<>> /\ lastUrl \in Urls /\ received = <<>> /\ requests = 0

cookie_domain_matches(host, domain) ==
  domain # Empty /\ IsSuffix(domain, host)

cookie_path_matches(path, prefix) ==
  IsPrefix(IF prefix = Empty THEN <<"/">> ELSE prefix, path)

\* The path up to its last slash, or "/".
DefaultPath(path) ==
  LET slashes == {n \in 2..Len(path) : path[n] = "/"}
  IN IF slashes = {} THEN <<"/">>
     ELSE SubSeq(path, 1, (CHOOSE n \in slashes : \A m \in slashes : m <= n) - 1)

\* parse_set_cookie of a header that has a name.
parse_set_cookie(h, url) ==
  [domain |-> IF h.domain # Empty THEN h.domain ELSE url.host,
   path   |-> IF h.path # Empty THEN h.path ELSE DefaultPath(url.path),
   name   |-> h.name, value |-> h.value, secure |-> h.secure]

Same(a, b) == a.domain = b.domain /\ a.path = b.path /\ a.name = b.name

\* Mutant: domain and path are not compared.
upsert_by_name(cookies, entry) ==
  IF \E n \in DOMAIN cookies : cookies[n].name = entry.name
  THEN [n \in DOMAIN cookies |->
          IF cookies[n].name = entry.name THEN entry ELSE cookies[n]]
  ELSE Append(cookies, entry)

upsert_cookie(cookies, entry) ==
  IF \E n \in DOMAIN cookies : Same(cookies[n], entry)
  THEN [n \in DOMAIN cookies |-> IF Same(cookies[n], entry) THEN entry ELSE cookies[n]]
  ELSE Append(cookies, entry)

Upserts(cookies, headers, url) ==
  FoldLeft(LAMBDA all, h : upsert_cookie(all, parse_set_cookie(h, url)), cookies, headers)

\* A row whose value is empty ends before its last field and is skipped.
load_cookie_jar_file == SelectSeq(jar, LAMBDA c : c.value # Empty)

build_cookie_header(cookies, url) ==
  SelectSeq(cookies, LAMBDA c : /\ c.secure => url.https
                                /\ cookie_domain_matches(url.host, c.domain)
                                /\ cookie_path_matches(url.path, c.path))

\* One request with the jar: load, send, store what the response sets, save.
Request(url, headers) ==
  /\ requests < MaxRequests
  /\ jar' = Upserts(load_cookie_jar_file, headers, url)
  /\ lastUrl' = url /\ received' = headers
  /\ requests' = requests + 1

CookiesNext ==
  \E url \in Urls, a, b \in SetCookies : Request(url, <<a, b>>) \/ Request(url, <<a>>)

Covers(h, url) ==
  /\ h.domain = Empty \/ IsSuffix(h.domain, url.host)
  /\ h.path = Empty \/ IsPrefix(h.path, url.path)
  /\ h.secure => url.https

\* What a server sets comes back: the next request of the same url, through
\* the jar file, carries every cookie that the last response set for it, with
\* the value given last (http.cpp:474, 504, 535, 591).  An empty value is lost
\* in the file (http.cpp:476).
CookieComesBack ==
  \A n \in DOMAIN received :
    LET set == received[n]
    IN  /\ Covers(set, lastUrl) /\ set.value # Empty
        /\ \A m \in (n + 1)..Len(received) :
             ~Same(parse_set_cookie(set, lastUrl), parse_set_cookie(received[m], lastUrl))
        => Contains(build_cookie_header(load_cookie_jar_file, lastUrl),
                    parse_set_cookie(set, lastUrl))
============================================================================
