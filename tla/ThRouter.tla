-------------------------------- MODULE ThRouter --------------------------------
(***************************************************************************)
(* The routes of a server, th_router.c: a tree of segments, built route by *)
(* route and searched by the path of each request.  A router is the        *)
(* sequence of its segments in the order they were made; parent is the     *)
(* index of the one above, 0 at the top.                                   *)
(***************************************************************************)
EXTENDS ThText

(* th_capture_type, in the order of th_route_lower; Malformed stands for a *)
(* segment that th_route_parse_trail rejects.                              *)
Literal == 0
IntCapture == 1
StringCapture == 2
PathCapture == 3
Malformed == 4

(* Handlers by the method they are for.                                    *)
RouteMethods == {"GET", "POST", "ANY"}

(* th_router_ws_default_handler                                            *)
WsDefault == "upgrade"

(* th_route_create                                                         *)
NewSegment(parent, seg) ==
  [parent |-> parent, type |-> seg.type, name |-> seg.name,
   handler |-> [m \in RouteMethods |-> "none"], ws |-> "none"]

Children(router, parent) == {i \in DOMAIN router : router[i].parent = parent}

(* Mutant: the list is in the order of insertion.                          *)
EarlierByAge(router, i, j) == i < j

(* The order of a list, th_route_insert_sorted: by type, the newest first. *)
Earlier(router, i, j) ==
  \/ router[i].type < router[j].type
  \/ router[i].type = router[j].type /\ i > j

FirstOf(router, S) == CHOOSE i \in S : \A j \in S \ {i} : Earlier(router, i, j)

(* Which segment a route goes on with.  A literal one is looked for by its *)
(* name alone: the capture {id} is taken for the literal "id".             *)
SameSegment(route, seg) ==
  IF seg.type = Literal THEN route.name = seg.name ELSE route.type = seg.type

(***************************************************************************)
(* th_router_find_or_create_segment: the segments of a route that are not  *)
(* there are made, and stay if a later one is malformed.                   *)
(***************************************************************************)
FindOrCreate(router, route) ==
  LET Down(acc, k) ==
        LET seg == route[k]
            same == {i \in Children(acc.router, acc.at) : SameSegment(acc.router[i], seg)}
        IN IF ~acc.ok THEN acc
           ELSE IF seg.type = Malformed \/ (seg.type = PathCapture /\ k < Len(route))
           THEN [acc EXCEPT !.ok = FALSE]
           ELSE IF same # {} THEN [acc EXCEPT !.at = FirstOf(acc.router, same)]
           ELSE [router |-> Append(acc.router, NewSegment(acc.at, seg)),
                 at |-> Len(acc.router) + 1, ok |-> TRUE]
  IN FoldLeft(Down, [router |-> router, at |-> 0, ok |-> TRUE], [k \in DOMAIN route |-> k])

(* th_router_add_route: a route that is there already is an error.         *)
WithHandler(found, method, handler) ==
  LET there == found.router[found.at].handler
  IN IF ~found.ok THEN found.router
     ELSE IF there["ANY"] # "none" \/ there[method] \notin {"none", WsDefault} THEN found.router
     ELSE [found.router EXCEPT ![found.at].handler[method] = handler]

AddRoute(router, method, route, handler) ==
  WithHandler(FindOrCreate(router, route), method, handler)

(* th_router_add_ws_route: without a route of its own for GET, the path    *)
(* has one that lets every handshake pass.                                 *)
WithWsHandler(found, handler) ==
  LET there == found.router[found.at]
      open == there.handler["GET"] = "none" /\ there.handler["ANY"] = "none"
  IN IF ~found.ok THEN found.router
     ELSE IF there.ws # "none" THEN found.router
     ELSE [found.router EXCEPT ![found.at].ws = handler,
                               ![found.at].handler["GET"] = IF open THEN WsDefault ELSE @]

AddWsRoute(router, route, handler) == WithWsHandler(FindOrCreate(router, route), handler)

(* What an application registers, one route after the other.               *)
Registered(routes) ==
  LET Add(router, r) ==
        IF r.method = "WS" THEN AddWsRoute(router, r.route, r.handler)
        ELSE AddRoute(router, r.method, r.route, r.handler)
  IN FoldLeft(Add, <<>>, routes)

-----------------------------------------------------------------------------
(* th_route_consume_trail: the segment is decoded, matched and captured.   *)
Matches(route, segment) ==
  CASE route.type = Literal    -> route.name = segment
    [] route.type = IntCapture -> IsUint(segment)
    [] OTHER                   -> TRUE

(***************************************************************************)
(* th_router_resolve: the first segment of a list that matches is gone on  *)
(* with, and there is no way back.  at is 0, and err says why, if the      *)
(* path leads nowhere.                                                     *)
(***************************************************************************)
Resolve(router, path) ==
  LET Down(acc, k) ==
        LET raw == Until(acc.trail, {"/"})
            level == Children(router, acc.at)
            match == {i \in level : Matches(router[i], Decode(raw))}
            route == router[FirstOf(router, match)]
            trail == IF route.type = PathCapture THEN <<>> ELSE After(acc.trail, Len(raw) + 1)
            value == IF route.type = PathCapture THEN acc.trail ELSE Decode(raw)
        IN IF acc.done THEN acc
           ELSE IF level # {} /\ Undecodable(raw) THEN [acc EXCEPT !.done = TRUE, !.err = "400"]
           ELSE IF match = {} THEN [acc EXCEPT !.done = TRUE, !.err = "404"]
           ELSE [at |-> FirstOf(router, match), trail |-> trail, done |-> trail = <<>>,
                 err |-> "",
                 captures |-> IF route.type = Literal THEN acc.captures
                              ELSE Append(acc.captures, <<route.name, value>>)]
  IN IF path = <<>> \/ path[1] # "/"
     THEN [at |-> 0, trail |-> <<>>, done |-> TRUE, err |-> "400", captures |-> <<>>]
     ELSE FoldLeft(Down, [at |-> 0, trail |-> Tail(path), done |-> FALSE, err |-> "",
                          captures |-> <<>>], [k \in DOMAIN path |-> k])

(* th_router_do_handle: the handler of the path for the method, or for     *)
(* any, or the code that says why there is none.                           *)
HandlerAt(router, found, method) ==
  LET handler == router[found.at].handler
  IN IF found.err # "" THEN found.err
     ELSE IF handler[method] # "none" THEN handler[method]
     ELSE IF handler["ANY"] # "none" THEN handler["ANY"]
     ELSE "405"

Handler(router, method, path) == HandlerAt(router, Resolve(router, path), method)

(* th_router_would_handle                                                  *)
WouldHandle(router, method, path) ==
  Handler(router, method, path) \notin {"400", "404", "405"}

(* th_router_find_ws_route                                                 *)
WsHandler(router, path) ==
  LET found == Resolve(router, path)
  IN IF found.err # "" THEN "none" ELSE router[found.at].ws
=============================================================================
