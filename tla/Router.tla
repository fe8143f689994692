------------------------------- MODULE Router -------------------------------
(***************************************************************************)
(* Router and RouterNode of layer3 (router.cpp, router_node.hpp): the      *)
(* registration of routes in the prefix tree and the search in it.         *)
(*                                                                         *)
(* Paths are normalised: a pattern is a sequence of segments, a segment is *)
(* a sequence of characters or one of the two parameter forms.  A path is  *)
(* the segments' characters with "/" between them.                         *)
(***************************************************************************)
EXTENDS Naturals, Sequences, SequencesExt, FiniteSets

CONSTANTS Patterns,   \* patterns to register
          Mounts,   \* prefixes to mount a sub-router at: static segments
          Methods,    \* methods to register and to ask for; "*" is all()
          Paths,      \* paths to ask for, as characters
          MaxRoutes   \* bound on the registrations

VARIABLES root,        \* root_
          sub_routers, \* sub_routers_: [prefix, root] in the order of route()
          registered   \* what was accepted: [method, pattern, id]

routerVars == <<root, sub_routers, registered>>

Param == <<"{id}">>
Wildcard == <<"{rest*}">>
classify(segment) ==
  CASE segment = Param -> "PARAM" [] segment = Wildcard -> "WILDCARD" [] OTHER -> "STATIC"

NewNode(prefix, type) ==
  [prefix |-> prefix, type |-> type, children |-> <<>>, handlers |-> {}]

RouterInit == root = NewNode(<<>>, "STATIC") /\ sub_routers = <<>> /\ registered = {}

----------------------------------------------------------------------------
\* The new first node of a STATIC child of which `path` shares n characters.
Split(child, n) ==
  IF n = Len(child.prefix) THEN child
  ELSE [NewNode(SubSeq(child.prefix, 1, n), "STATIC") EXCEPT
          !.children = <<[child EXCEPT !.prefix = SubSeq(@, n + 1, Len(@))]>>]

\* The loop of add_child from child i on.  After a common prefix it cuts the
\* path and goes on with the next sibling, not with the child's children.
RECURSIVE AddChild(_, _, _, _)
AddChild(children, i, path, type) ==
  IF i > Len(children)
  THEN [children |-> Append(children, NewNode(path, type)), at |-> i]
  ELSE LET child == children[i]
           n == Len(LongestCommonPrefix({child.prefix, path}))
           split == [children EXCEPT ![i] = Split(child, n)]
       IN CASE child.type # type                   -> AddChild(children, i + 1, path, type)
            [] child.type = type /\ type # "STATIC" -> [children |-> children, at |-> i]
            [] child.type = type /\ type = "STATIC" ->
                 IF n = 0 THEN AddChild(children, i + 1, path, type)
                 ELSE IF n = Len(path) THEN [children |-> split, at |-> i]
                 ELSE AddChild(split, i + 1, SubSeq(path, n + 1, Len(path)), type)

Duplicate(handlers, method) ==
  IF method = "*" THEN handlers # {}
  ELSE \E h \in handlers : h.method \in {method, "*"}

\* add_route below a node.  A duplicate is thrown when the nodes exist.
RECURSIVE AddRoute(_, _, _, _)
AddRoute(node, segments, method, id) ==
  IF segments = <<>>
  THEN IF Duplicate(node.handlers, method) THEN node
       ELSE [node EXCEPT !.handlers = @ \cup {[method |-> method, id |-> id]}]
  ELSE LET type == classify(Head(segments))
           added == AddChild(node.children, 1,
                             IF type = "STATIC" THEN Head(segments) ELSE <<>>, type)
       IN [node EXCEPT !.children =
             [added.children EXCEPT ![added.at] = AddRoute(@, Tail(segments), method, id)]]

RECURSIVE HandlersOf(_)
HandlersOf(node) ==
  node.handlers \cup UNION {HandlersOf(node.children[n]) : n \in DOMAIN node.children}

----------------------------------------------------------------------------
NoNode == NewNode(<<"none">>, "STATIC")

\* The first child of a type, of the static ones the first whose text comes next.
FirstChild(node, type, path) ==
  SelectInSeq(node.children,
              LAMBDA c : c.type = type /\ (type = "STATIC" => IsPrefix(c.prefix, path)))

UpToSlash(path) ==
  LET slashes == {n \in DOMAIN path : path[n] = "/"}
  IN IF slashes = {} THEN Len(path)
     ELSE (CHOOSE n \in slashes : \A m \in slashes : n <= m) - 1

\* The walk that match and match_node share: at each step the first static
\* child that is a prefix of what remains, else the parameter, else the
\* wildcard; no way back.
RECURSIVE Walk(_, _)
Walk(node, path) ==
  LET static == FirstChild(node, "STATIC", path)
      param  == FirstChild(node, "PARAM", path)
      wild   == FirstChild(node, "WILDCARD", path)
  IN CASE path = <<>> -> node
       [] path # <<>> /\ Head(path) = "/" -> Walk(node, Tail(path))
       [] OTHER ->
            IF static > 0
            THEN Walk(node.children[static],
                      SubSeq(path, Len(node.children[static].prefix) + 1, Len(path)))
            ELSE IF param > 0
            THEN Walk(node.children[param], SubSeq(path, UpToSlash(path) + 1, Len(path)))
            ELSE IF wild > 0 THEN node.children[wild] ELSE NoNode

RECURSIVE WalkNoWildcard(_, _)
WalkNoWildcard(node, path) ==
  LET static == FirstChild(node, "STATIC", path)
      param  == FirstChild(node, "PARAM", path)
  IN CASE path = <<>> -> node
       [] path # <<>> /\ Head(path) = "/" -> WalkNoWildcard(node, Tail(path))
       [] OTHER ->
            IF static > 0
            THEN WalkNoWildcard(node.children[static],
                   SubSeq(path, Len(node.children[static].prefix) + 1, Len(path)))
            ELSE IF param > 0
            THEN WalkNoWildcard(node.children[param],
                                SubSeq(path, UpToSlash(path) + 1, Len(path)))
            ELSE NoNode

\* Mutant: wildcard nodes are left out of the walk.
match_node_no_wildcard(node, path) == WalkNoWildcard(node, path)

match_node(node, path) == Walk(node, path)

\* RouterNode::match: the ids of the handler found, if any.
NodeMatch(node, method, path) ==
  LET found == Walk(node, path).handlers
      own == {h \in found : h.method = method}
  IN {h.id : h \in IF own # {} THEN own ELSE {h \in found : h.method = "*"}}

prefix_matches(path, prefix) ==
  /\ IsPrefix(prefix, path)
  /\ Len(path) = Len(prefix) \/ path[Len(prefix) + 1] = "/"

Below(path, prefix) == SubSeq(path, Len(prefix) + 1, Len(path))

\* Router::match: the first sub-router that knows the path, else the root.
Match(method, path) ==
  LET found(n) == IF prefix_matches(path, sub_routers[n].prefix)
                  THEN NodeMatch(sub_routers[n].root, method,
                                 Below(path, sub_routers[n].prefix))
                  ELSE {}
      hits == {n \in DOMAIN sub_routers : found(n) # {}}
  IN IF hits = {} THEN NodeMatch(root, method, path)
     ELSE found(CHOOSE n \in hits : \A m \in hits : n <= m)

AllMethods == {"DELETE", "GET", "HEAD", "OPTIONS", "PATCH", "POST", "PUT"}
NodeMethods(node, path) ==
  LET methods == {h.method : h \in match_node(node, path).handlers}
  IN IF "*" \in methods THEN AllMethods
     ELSE methods \cup (IF "GET" \in methods THEN {"HEAD"} ELSE {})

\* Router::allowed_methods, for the Allow header and the choice of 404 or 405.
allowed_methods(path) ==
  LET found(n) == IF prefix_matches(path, sub_routers[n].prefix)
                  THEN NodeMethods(sub_routers[n].root, Below(path, sub_routers[n].prefix))
                  ELSE {}
      hits == {n \in DOMAIN sub_routers : found(n) # {}}
  IN IF hits = {} THEN NodeMethods(root, path)
     ELSE found(CHOOSE n \in hits : \A m \in hits : n <= m)

----------------------------------------------------------------------------
NewId == Cardinality(registered) + 1

\* get, post, ..., all.
Register(method, pattern) ==
  /\ Cardinality(registered) < MaxRoutes
  /\ LET tree == AddRoute(root, pattern, method, NewId)
         accepted == \E h \in HandlersOf(tree) : h.id = NewId
     IN /\ root' = tree
        /\ registered' = IF accepted
             THEN registered \cup {[method |-> method, pattern |-> pattern, id |-> NewId]}
             ELSE registered
  /\ UNCHANGED sub_routers

\* route(prefix, sub_router), with a sub-router of one route.
Mount(prefix, method, pattern) ==
  /\ Cardinality(registered) < MaxRoutes
  /\ sub_routers' = Append(sub_routers,
       [prefix |-> prefix,
        root |-> AddRoute(NewNode(<<>>, "STATIC"), pattern, method, NewId)])
  /\ registered' = registered \cup
       {[method |-> method, pattern |-> <<prefix>> \o pattern, id |-> NewId]}
  /\ UNCHANGED root

RouterNext ==
  \E method \in Methods, pattern \in Patterns :
    \/ Register(method, pattern)
    \/ \E prefix \in Mounts : Mount(prefix, method, pattern)

----------------------------------------------------------------------------
\* The 404, the 405 and its Allow header tell the truth: a path without allowed
\* methods is matched by no method, and every method that Allow lists would
\* have been matched (router.cpp:291, app.cpp:195).  HEAD, which is listed with
\* GET and never matched, is left out.
AllowIsTrue ==
  registered # {} => \A path \in Paths :
    /\ allowed_methods(path) = {} => \A method \in AllMethods : Match(method, path) = {}
    /\ \A method \in allowed_methods(path) \ {"HEAD"} : Match(method, path) # {}

PathOf(pattern) ==
  FlattenSeq([n \in DOMAIN pattern |-> IF n = 1 THEN pattern[n] ELSE <<"/">> \o pattern[n]])

\* design.md:531: a static pattern such as /users is matched exactly, so in a
\* router without mounted ones every static route answers its own path.
StaticRouteMatches ==
  sub_routers = <<>> =>
    \A r \in registered :
      (\A n \in DOMAIN r.pattern : classify(r.pattern[n]) = "STATIC") =>
        Match(r.method, PathOf(r.pattern)) = {r.id}
=============================================================================
