------------------------------- MODULE MCWeb --------------------------------
(***************************************************************************)
(* The parts of HTTP and of the web framework, one at a time: `part` says  *)
(* which a behaviour is about; the others keep their initial state.        *)
(***************************************************************************)
EXTENDS HttpClient, HttpBuilder, HttpCookies, WebApp, RateLimit, Router, DiContainer

VARIABLE part

vars == <<part, httpVars, builderVars, cookieVars, webVars, rateVars, routerVars, diVars>>

AnExecute == [kind |-> "execute", method |-> "GET", valid |-> "ok", max_attempts |-> 2,
              idempotent_only |-> TRUE, on_5xx |-> TRUE, throws |-> TRUE, follow |-> TRUE,
              noisy |-> FALSE, resume |-> FALSE, use_temp |-> FALSE, overwrite |-> FALSE]

MCCalls ==
  {[AnExecute EXCEPT !.method = m, !.max_attempts = a, !.idempotent_only = i,
                     !.on_5xx = x, !.throws = t, !.follow = f] :
     m \in {"GET", "POST"}, a \in {0, 2}, i, x, t, f \in BOOLEAN}
  \cup {[AnExecute EXCEPT !.valid = v] : v \in {"early", "late"}}
  \cup {[AnExecute EXCEPT !.kind = "download", !.throws = t, !.noisy = n, !.resume = r,
                          !.use_temp = u, !.overwrite = o] :
          t, n, r, u, o \in BOOLEAN}

MCEntity == <<1, 2, 3>>
MCOld == <<9>>
MCParts == {Absent, <<>>, <<1>>, <<1, 2, 3>>}

NoTypes == <<>>

MCUrls == {[https |-> FALSE, host |-> <<"a", "org">>, path |-> <<"/", "x">>],
           [https |-> FALSE, host |-> <<"b", "a", "org">>, path |-> <<"/", "x">>],
           [https |-> TRUE, host |-> <<"b", "a", "org">>, path |-> <<"/", "x", "/", "y">>]}
ACookie == [name |-> "n", value |-> <<1>>, domain |-> Empty, path |-> Empty, secure |-> FALSE]
MCSetCookies ==
  {ACookie, [ACookie EXCEPT !.value = <<2>>], [ACookie EXCEPT !.value = Empty],
   [ACookie EXCEPT !.domain = <<"a", "org">>], [ACookie EXCEPT !.path = <<"/", "x">>],
   [ACookie EXCEPT !.name = "m", !.domain = <<"a", "org">>, !.path = <<"/">>],
   [ACookie EXCEPT !.value = <<2>>, !.secure = TRUE]}

Plain == [size |-> 2, head |-> 1, bad_header |-> FALSE, malformed |-> FALSE, over |-> 0,
          close |-> FALSE, handler |-> "value", guarded |-> 0, preflight |-> FALSE,
          known |-> FALSE]
MCSends ==
  << <<[Plain EXCEPT !.known = TRUE], [Plain EXCEPT !.handler = "stream"],
       [Plain EXCEPT !.head = 2], [Plain EXCEPT !.handler = "throws"]>>,
     <<[Plain EXCEPT !.guarded = 413, !.handler = "stream, then throws"],
       [Plain EXCEPT !.over = 413]>>,
     <<[Plain EXCEPT !.handler = "stream, then throws"],
       [Plain EXCEPT !.handler = "missing", !.close = TRUE], Plain>>,
     <<[Plain EXCEPT !.handler = "other method", !.preflight = TRUE],
       [Plain EXCEPT !.bad_header = TRUE]>>,
     <<[Plain EXCEPT !.handler = "other method"], [Plain EXCEPT !.malformed = TRUE]>>,
     <<[Plain EXCEPT !.size = 5]>> >>
MCChains == {<<>>, <<"error_handler", "guard">>, <<"guard", "error_handler", "cors">>,
             <<"etag", "cors", "pass">>}

OverLimitSends == << <<Plain, [Plain EXCEPT !.over = 413], [Plain EXCEPT !.over = 414]>>,
                     <<[Plain EXCEPT !.over = 431]>> >>
BareChain == {<<>>}

MCPatterns == {<<>>, <<<<"a">>>>, <<<<"a", "b">>>>, <<Param>>, <<<<"a">>, Param>>,
               <<<<"a">>, Wildcard>>, <<Wildcard>>}
MCMounts == {<<"a">>}
MCPaths == {<<>>, <<"a">>, <<"a", "b">>, <<"a", "/", "b">>, <<"b">>, <<"b", "/", "a">>}

StaticPatterns == {<<<<"h", "e">>>>, <<<<"h", "o">>>>, <<<<"x">>>>}

\* Type a holds b's, in the ways a member can; in the last two b holds an a.
Holding(t, as) == [type |-> t, as |-> as]
TwoTypes(of_a, ctor_b, of_b) ==
  [t \in Services |-> IF t = "a" THEN [ctor |-> "aggregate", members |-> of_a]
                     ELSE [ctor |-> ctor_b, members |-> of_b]]
MCShapes ==
  {TwoTypes(<<Holding("b", as)>>, ctor, <<>>) :
     as \in Members, ctor \in {"aggregate", "class", "none"}}
  \cup {TwoTypes(<<Holding("b", "shared_ptr"), Holding("b", as)>>, "aggregate",
                 <<Holding("a", "pointer")>>) : as \in {"pointer", "value"}}
MCFactories ==
  {[kind |-> "value", needs |-> n] : n \in {<<>>, <<<<"", "a">>>>, <<<<"k", "b">>>>}}
  \cup {[kind |-> k, needs |-> <<>>] : k \in {"null", "throws"}}

MCInit ==
  /\ part \in {"client", "builder", "cookies", "server", "limiter", "router", "container"}
  /\ HttpInit /\ BuilderInit /\ CookiesInit /\ WebInit /\ RateInit /\ RouterInit /\ DiInit
  /\ part # "client" => call = AnExecute
  /\ part # "cookies" => lastUrl = CHOOSE u \in Urls : TRUE
  /\ part # "server" => chain = CHOOSE c \in Chains : TRUE
  /\ part # "container" => shape = CHOOSE s \in Shapes : TRUE

ClientPart ==
  /\ part = "client" /\ HttpNext
  /\ UNCHANGED <<part, builderVars, cookieVars, webVars, rateVars, routerVars, diVars>>
BuilderPart ==
  /\ part = "builder" /\ BuilderNext
  /\ UNCHANGED <<part, httpVars, cookieVars, webVars, rateVars, routerVars, diVars>>
CookiesPart ==
  /\ part = "cookies" /\ CookiesNext
  /\ UNCHANGED <<part, httpVars, builderVars, webVars, rateVars, routerVars, diVars>>
ServerPart ==
  /\ part = "server" /\ WebNext
  /\ UNCHANGED <<part, httpVars, builderVars, cookieVars, rateVars, routerVars, diVars>>
LimiterPart ==
  /\ part = "limiter" /\ RateNext
  /\ UNCHANGED <<part, httpVars, builderVars, cookieVars, webVars, routerVars, diVars>>
RouterPart ==
  /\ part = "router" /\ RouterNext
  /\ UNCHANGED <<part, httpVars, builderVars, cookieVars, webVars, rateVars, diVars>>
ContainerPart ==
  /\ part = "container" /\ DiNext
  /\ UNCHANGED <<part, httpVars, builderVars, cookieVars, webVars, rateVars, routerVars>>

MCNext ==
  \/ ClientPart \/ BuilderPart \/ CookiesPart \/ ServerPart \/ LimiterPart \/ RouterPart
  \/ ContainerPart

MCSpec == MCInit /\ [][MCNext]_vars
=============================================================================
