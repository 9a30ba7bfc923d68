------------------------------ MODULE Routing ------------------------------
(***************************************************************************)
(* Routes, groups of middlewares and the dispatch of messages              *)
(* (server/routermgr.go, middleware.go, util/pipeline.go).  The program    *)
(* registers routers and middlewares and starts the server, and goroutines *)
(* dispatch messages through the pipeline.  AddRouter and Use of a server  *)
(* that runs would race with them and are left out; groups may still be    *)
(* changed, for nothing reads them any more.                               *)
(*                                                                         *)
(* A pipeline is the sequence of what its nested functions call, outermost *)
(* first, and ends with Destination.  A middleware calls next, or does not *)
(* (it ends the message), or calls it again when it returns.               *)
(***************************************************************************)
EXTENDS Integers, Sequences, SequencesExt

CONSTANTS
  Ids,           \* message IDs
  Routers,
  Middlewares,
  Dispatchers,   \* goroutines that run Dispatch
  MaxCall,       \* bound: calls of AddRouter, of the server and of groups
  MaxGroup,      \* bound: groups
  MaxUse,        \* bound: global middlewares
  MaxRun,        \* bound: how often a message is handed to its router
  MaxMore,       \* bound: further middlewares of a group
  None, Destination, MessageHandler

ASSUME RoutingAssumption ==
  /\ {MaxCall, MaxGroup, MaxUse, MaxRun, MaxMore} \subseteq Nat
  /\ None \notin Routers \cup Ids /\ MessageHandler \notin Routers
  /\ Destination \notin Middlewares

VARIABLES
  application,        \* "router" or "websocket"
  status,             \* "stopped" or "started"
  inner,              \* r.inner
  routeMiddleware,    \* r.routeMiddleware
  globalMiddlewares,  \* r.globalMiddlewares
  middlewareGroup,    \* r.middlewareGroup
  calls,              \* history: what AddRouter was called with
  message,            \* the ID of the message a goroutine dispatches, None: idle
  pipeline,           \* what it has built
  entered,            \* the middlewares it is in, outermost first
  goes,               \* "in" or "out"
  ran                 \* the routers it has called for its message

config == <<application, status, inner, routeMiddleware, globalMiddlewares, middlewareGroup, calls>>
dispatch == <<message, pipeline, entered, goes, ran>>
routingVars == <<config, dispatch>>

Nobody == [id \in Ids |-> None]

RoutingInit ==
  /\ application \in {"router", "websocket"}
  /\ status = "stopped"
  /\ inner = Nobody
  /\ routeMiddleware = [id \in Ids |-> <<>>]
  /\ globalMiddlewares = <<>>
  /\ middlewareGroup = <<>>
  /\ calls = <<>>
  /\ message = [d \in Dispatchers |-> None]
  /\ pipeline = [d \in Dispatchers |-> <<>>]
  /\ entered = [d \in Dispatchers |-> <<>>]
  /\ goes = [d \in Dispatchers |-> "in"]
  /\ ran = [d \in Dispatchers |-> <<>>]

-----------------------------------------------------------------------------
(* What the calls before Start amount to: the last group with a router for *)
(* an ID decides, with its last router; without one the server's last.     *)

\* The calls that register a router for id, of groups or of the server.
Direct(id) == { i \in DOMAIN calls : calls[i].group = 0 /\ calls[i].id = id }
Grouped(id) ==
  { i \in DOMAIN calls : calls[i].group > 0 /\ calls[i].id = id /\ ~calls[i].late }

\* The group that decides for id, 0: none.
GroupOf(id) == Max({0} \cup { calls[i].group : i \in Grouped(id) })
ByGroupOf(id) == { i \in Grouped(id) : calls[i].group = GroupOf(id) }

RouterOf(id) ==
  IF Grouped(id) # {} THEN calls[Max(ByGroupOf(id))].router
  ELSE IF Direct(id) # {} THEN calls[Max(Direct(id))].router
  ELSE None

MiddlewaresOf(id) ==
  globalMiddlewares \o
    (IF GroupOf(id) = 0 THEN <<>> ELSE middlewareGroup[GroupOf(id)].middlewares)

-----------------------------------------------------------------------------
(* The program configures the server.                                      *)

Record(group, id, router) ==
  /\ Len(calls) < MaxCall
  /\ calls' = Append(calls, [group |-> group, id |-> id, router |-> router,
                             late |-> status = "started"])

\* Server.AddRouter; it panics with the websocket application.
AddRouter(id, router) ==
  /\ status = "stopped" /\ application = "router"
  /\ Record(0, id, router)
  /\ inner' = [inner EXCEPT ![id] = router]
  /\ UNCHANGED <<application, status, routeMiddleware, globalMiddlewares, middlewareGroup, dispatch>>

\* Server.Use
Use(m) ==
  /\ status = "stopped" /\ Len(globalMiddlewares) < MaxUse
  /\ globalMiddlewares' = Append(globalMiddlewares, m)
  /\ UNCHANGED <<application, status, inner, routeMiddleware, middlewareGroup, calls, dispatch>>

\* Server.Group: one middleware, and more of them.
NewGroup(m, more) ==
  /\ Len(middlewareGroup) < MaxGroup
  /\ middlewareGroup' = Append(middlewareGroup, [middlewares |-> <<m>> \o more, routers |-> Nobody])
  /\ UNCHANGED <<application, status, inner, routeMiddleware, globalMiddlewares, calls, dispatch>>

\* MiddlewareGroup.AddRouter.  After Start nothing looks at the group any more.
GroupAddRouter(g, id, router) ==
  /\ Record(g, id, router)
  /\ middlewareGroup' = [middlewareGroup EXCEPT ![g].routers[id] = router]
  /\ UNCHANGED <<application, status, inner, routeMiddleware, globalMiddlewares, dispatch>>

\* What the loop of ResolveGroup leaves for id: each group with a router for it
\* overwrites what the groups before it have set.
Resolve(id) ==
  LET having == { g \in DOMAIN middlewareGroup : middlewareGroup[g].routers[id] # None }
      group == middlewareGroup[Max(having)]
  IN  IF having = {} THEN [router |-> inner[id], middlewares |-> routeMiddleware[id]]
      ELSE [router |-> group.routers[id], middlewares |-> group.middlewares]

\* Server.Start: ResolveGroup, and then the acceptor runs.
Start ==
  /\ status = "stopped" /\ status' = "started"
  /\ inner' = [id \in Ids |-> Resolve(id).router]
  /\ routeMiddleware' = [id \in Ids |-> Resolve(id).middlewares]
  /\ UNCHANGED <<application, globalMiddlewares, middlewareGroup, calls, dispatch>>

-----------------------------------------------------------------------------
(* The pipeline of a message.                                              *)

\* Mutant: the stage forgets its next.
CarryDropsNext(stack, stage) == <<stage>>

\* Carry: the stage, with what has been built so far as its next.
Carry(stack, stage) == <<stage>> \o stack

\* ArrayReduce, from the destination outwards: what n steps of its loop build.
ArrayReduce(pipes) ==
  LET built[n \in 0..Len(pipes)] ==
        IF n = 0 THEN <<Destination>> ELSE Carry(built[n - 1], pipes[n])
  IN  built[Len(pipes)]

\* Mutant: the stages are not reversed first.
ThenForward(pipes) == ArrayReduce(pipes)

\* Then: the first stage becomes the outermost one.
Then(pipes) == ArrayReduce(Reverse(pipes))

\* Dispatch merges the middlewares and builds the pipeline.
Dispatch(d, id) ==
  /\ status = "started" /\ message[d] = None
  /\ message' = [message EXCEPT ![d] = id]
  /\ pipeline' = [pipeline EXCEPT ![d] = Then(globalMiddlewares \o routeMiddleware[id])]
  /\ UNCHANGED <<config, entered, goes, ran>>

\* What is called next.
Callee(d) == pipeline[d][Len(entered[d]) + 1]

\* A middleware begins.
Enter(d) ==
  /\ message[d] # None /\ goes[d] = "in" /\ Callee(d) # Destination
  /\ entered' = [entered EXCEPT ![d] = Append(@, Callee(d))]
  /\ UNCHANGED <<config, message, pipeline, goes, ran>>

\* The innermost middleware does not call next.
Break(d) ==
  /\ goes[d] = "in" /\ entered[d] # <<>>
  /\ goes' = [goes EXCEPT ![d] = "out"]
  /\ UNCHANGED <<config, message, pipeline, entered, ran>>

\* Do: calls the router of the ID, if there is one.
Do(id, called) == IF inner[id] = None THEN called ELSE Append(called, inner[id])

\* The destination: Do, or the handler of the websocket's messages.
Handle(d) ==
  /\ message[d] # None /\ goes[d] = "in" /\ Callee(d) = Destination
  /\ ran' = [ran EXCEPT ![d] =
       IF application = "websocket" THEN Append(@, MessageHandler) ELSE Do(message[d], @)]
  /\ goes' = [goes EXCEPT ![d] = "out"]
  /\ UNCHANGED <<config, message, pipeline, entered>>

\* The innermost middleware returns, or calls next again.
Leave(d) ==
  /\ goes[d] = "out" /\ entered[d] # <<>>
  /\ \/ /\ entered' = [entered EXCEPT ![d] = Front(@)]
        /\ UNCHANGED goes
     \/ /\ Len(ran[d]) < MaxRun
        /\ goes' = [goes EXCEPT ![d] = "in"]
        /\ UNCHANGED entered
  /\ UNCHANGED <<config, message, pipeline, ran>>

\* Dispatch returns.
Finish(d) ==
  /\ goes[d] = "out" /\ entered[d] = <<>>
  /\ message' = [message EXCEPT ![d] = None]
  /\ pipeline' = [pipeline EXCEPT ![d] = <<>>]
  /\ goes' = [goes EXCEPT ![d] = "in"]
  /\ ran' = [ran EXCEPT ![d] = <<>>]
  /\ UNCHANGED <<config, entered>>

RoutingNext ==
  \/ \E id \in Ids, router \in Routers :
       \/ AddRouter(id, router)
       \/ \E g \in DOMAIN middlewareGroup : GroupAddRouter(g, id, router)
  \/ \E m \in Middlewares :
       \/ Use(m)
       \/ \E k \in 0..MaxMore : \E more \in [1..k -> Middlewares] : NewGroup(m, more)
  \/ Start
  \/ \E d \in Dispatchers :
       \/ \E id \in Ids : Dispatch(d, id)
       \/ Enter(d) \/ Break(d) \/ Handle(d) \/ Leave(d) \/ Finish(d)

RoutingSpec == RoutingInit /\ [][RoutingNext]_routingVars

-----------------------------------------------------------------------------
(* Properties.                                                             *)

\* Every variable keeps its type; a pipeline in use ends with its destination
\* and is never left through it.
RoutingTypeOK ==
  /\ application \in {"router", "websocket"} /\ status \in {"stopped", "started"}
  /\ inner \in [Ids -> Routers \cup {None}]
  /\ routeMiddleware \in [Ids -> Seq(Middlewares)]
  /\ globalMiddlewares \in Seq(Middlewares)
  /\ middlewareGroup \in Seq([middlewares : Seq(Middlewares), routers : [Ids -> Routers \cup {None}]])
  /\ calls \in Seq([group : 0..MaxGroup, id : Ids, router : Routers, late : BOOLEAN])
  /\ message \in [Dispatchers -> Ids \cup {None}]
  /\ entered \in [Dispatchers -> Seq(Middlewares)]
  /\ goes \in [Dispatchers -> {"in", "out"}]
  /\ ran \in [Dispatchers -> Seq(Routers \cup {MessageHandler})]
  /\ \A d \in Dispatchers :
       message[d] # None => pipeline[d] \in Seq(Middlewares \cup {Destination})
                              /\ Last(pipeline[d]) = Destination
                              /\ Len(entered[d]) < Len(pipeline[d])

\* "Middlewares run in the order global, then group" (README.md:273): a message of
\* the router application is inside of exactly the global middlewares and those
\* of the group that decides for its ID, in the order of registration.
Guarded(d) == application = "router" => entered[d] = MiddlewaresOf(message[d])

\* The message of a websocket is inside of all global middlewares, and no other is
\* further out.  That there are no others (README.md:269) is not so: Dispatch adds
\* those of a group with a router for the number that the message happens to have.
GlobalFirst(d) == application = "websocket" => IsPrefix(globalMiddlewares, entered[d])

\* It goes to the router that the calls of AddRouter, of the server and of the
\* groups, amount to.
LatestRouter(d) == application = "router" => Last(ran'[d]) = RouterOf(message[d])

\* A router that only groups have for an ID is called inside of all the
\* middlewares of a group that has it, innermost.
Protected(d) ==
  LET id == message[d]  router == Last(ran'[d])
      Registered(i) == calls[i].id = id /\ calls[i].router = router
  IN
  application = "router" /\ (\A i \in DOMAIN calls : Registered(i) => calls[i].group > 0)
    => \E i \in DOMAIN calls :
         /\ Registered(i) /\ ~calls[i].late
         /\ IsSuffix(middlewareGroup[calls[i].group].middlewares, entered[d])

\* Whenever a router is called, for the first time or again by a middleware, and
\* whatever other messages are on their way, it is the right one, in the right
\* middlewares; a websocket's handler is called inside of the global ones.
RightRoute ==
  [][\A d \in Dispatchers :
       Len(ran'[d]) > Len(ran[d]) =>
         Guarded(d) /\ GlobalFirst(d) /\ LatestRouter(d) /\ Protected(d)]_routingVars
=============================================================================
