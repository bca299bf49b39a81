-------------------------------- MODULE Server --------------------------------
(***************************************************************************)
(* A server from NewServer to its sessions: the configurations and then    *)
(* the options are applied (configuration.go, options.go, the daemons), a  *)
(* client is let in (feature/authorize.go), its sessions find a container  *)
(* (config/dockerexec), and it forwards ports (feature/forward*.go).  The  *)
(* ssh library, which makes one context for a connection, handles its      *)
(* sessions concurrently and dials or listens, is external, and so is the  *)
(* docker daemon.                                                          *)
(***************************************************************************)
EXTENDS Naturals, Sequences, FiniteSets

CONSTANTS
    LibraryUses,   \* sequences of configurations that other programs pass
    Containers,    \* the containers whose label names the user
    Sessions,      \* the sessions of one connection
    Given,         \* the addresses that -L and -R can be given
    Requests,      \* the addresses a client can ask for
    PortSpan       \* the number of ports: a NetworkPort is a number modulo it

Configurations == {"docker", "system", "repl", "nil"}

ASSUME ServerAssumption ==
    /\ LibraryUses \subseteq Seq(Configurations)
    /\ {"none", "no", "open"} \cap Containers = {}
    /\ "auth" \notin Sessions
    /\ PortSpan \in Nat \ {0}
    /\ \A r \in Given \cup Requests :
          r = [host |-> r.host, port |-> r.port] /\ r.port \in Nat

Directions == {"to", "from"}
Callers == Sessions \cup {"auth"}   \* who looks for a container

VARIABLES
    uses, opts,   \* the arguments of NewServer: configurations, options
    todo,         \* what is still to be applied
    stage,        \* "configuring", "listening", "failed" or "panicked"
    handler,      \* server.Handler: whose it is, or "none"
    auth,         \* server.PublicKeyHandler: "none" or "keys"
    allowed,      \* allowed[d]: the addresses that may be forwarded
    running,      \* the containers that run
    listed,       \* the containers in whose files the client's key is
    cached,       \* the container in the connection's context, or "none"
    login,        \* "no", "open" (no authentication), or the container that authorized
    call, found,  \* call[t]: where t is in its handler; found[t]: what it looks at
    raced,        \* history: did two look for a container at once?
    forwarded     \* the last address reached, with its direction

config == <<uses, opts, todo, stage, handler, auth, allowed>>
world  == <<running, listed>>
conn   == <<cached, login, call, found, raced, forwarded>>
vars   == <<config, world, conn>>

-----------------------------------------------------------------------------
(* RegisterFlags: the flag -unsafe, where it is offered, and -L and -R. *)
Unsafe(default, addUnsafeFlags) == IF addUnsafeFlags THEN BOOLEAN ELSE {default}
AddressLists == SUBSET Given

(* The daemons. *)
dockersshd == [uses |-> <<"docker">>, unsafe |-> Unsafe(FALSE, TRUE)]
simplesshd == [uses |-> <<"system">>, unsafe |-> Unsafe(FALSE, FALSE)]
exposshed  == [uses |-> <<"repl">>,   unsafe |-> Unsafe(TRUE, FALSE)]

OptionsFirst(u) == <<"options">> \o u   \* mutant: options do not have the last word
Order(u) == u \o <<"options">>

Init ==
    /\ \/ \E p \in {dockersshd, simplesshd, exposshed} : uses = p.uses /\
          opts \in [nil : {FALSE}, unsafe : p.unsafe, to : AddressLists, from : AddressLists]
       \/ /\ uses \in LibraryUses
          /\ opts \in [nil : BOOLEAN, unsafe : BOOLEAN, to : {{}}, from : {{}}]
    /\ todo = Order(uses) /\ stage = "configuring"
    /\ handler = "none" /\ auth = "none"
    /\ allowed = [d \in Directions |-> {}]
    /\ running \in SUBSET Containers /\ listed \in SUBSET Containers
    /\ cached = "none" /\ login = "no"
    /\ call = [t \in Callers |-> "idle"] /\ found = [t \in Callers |-> "none"]
    /\ raced = FALSE
    /\ forwarded = [direction |-> "none"]

Applying(c) == stage = "configuring" /\ todo # <<>> /\ Head(todo) = c /\ todo' = Tail(todo)

SkipNil ==
    /\ Applying("nil")
    /\ UNCHANGED <<uses, opts, stage, handler, auth, allowed, world, conn>>

(* Apply, and then the handler, which can only be set once. *)
ApplyHandler(c) ==
    /\ Applying(c)
    /\ auth' = IF c = "docker" THEN "keys" ELSE auth
    /\ IF handler = "none" THEN handler' = c /\ UNCHANGED stage
                           ELSE stage' = "failed" /\ UNCHANGED handler
    /\ UNCHANGED <<uses, opts, allowed, world, conn>>

(* The ports on the command line have 32 bits, those of the list 16. *)
Wide(p) == p   \* mutant: a port is not truncated
NetworkPort(p) == p % PortSpan
ParseNetworkAddress(a) == [a EXCEPT !.port = NetworkPort(@)]

Swapped(d) == IF d = "to" THEN opts.from ELSE opts.to   \* mutant: -L and -R swapped
AddressList(d) == IF d = "to" THEN opts.to ELSE opts.from

(* A nil *Options is not a nil Configuration.  A host key can fail at the end. *)
ApplyOptions ==
    /\ Applying("options")
    /\ IF opts.nil THEN stage' = "panicked" /\ UNCHANGED <<auth, allowed>>
       ELSE /\ auth' = IF opts.unsafe THEN "none" ELSE auth
            /\ allowed' = [d \in Directions |-> {ParseNetworkAddress(a) : a \in AddressList(d)}]
            /\ stage' \in {"configuring", "failed"}
    /\ UNCHANGED <<uses, opts, handler, world, conn>>

ListenAndServe ==
    /\ stage = "configuring" /\ todo = <<>>
    /\ stage' \in {"listening", "failed"}
    /\ UNCHANGED <<uses, opts, todo, handler, auth, allowed, world, conn>>

-----------------------------------------------------------------------------
(* The library lets in everybody where there is no PublicKeyHandler, asks it for
   each key a client offers, and then calls the handler for each session.         *)
OpenLogin ==
    /\ stage = "listening" /\ auth = "none" /\ login = "no"
    /\ login' = "open"
    /\ UNCHANGED <<config, world, cached, call, found, raced, forwarded>>

NeedsContainer(t) == t = "auth" \/ handler = "docker"

BeginCall(t) ==
    /\ stage = "listening" /\ call[t] = "idle"
    /\ IF t = "auth" THEN auth = "keys" /\ login = "no"
                     ELSE handler # "none" /\ login # "no"
    /\ call' = [call EXCEPT ![t] = IF NeedsContainer(t) THEN "check" ELSE "started"]
    /\ UNCHANGED <<config, world, cached, login, found, raced, forwarded>>

(* findContainer *)
Looking(t) == call[t] \in {"list", "store"}

Check(t) ==
    /\ call[t] = "check"
    /\ IF cached = "none" THEN call' = [call EXCEPT ![t] = "list"] /\ UNCHANGED found
                          /\ raced' = (raced \/ \E u \in Callers : Looking(u))
       ELSE /\ call' = [call EXCEPT ![t] = "found"]
            /\ found' = [found EXCEPT ![t] = cached] /\ UNCHANGED raced
    /\ UNCHANGED <<config, world, cached, login, forwarded>>

FindUniqueContainer(t) ==
    /\ call[t] = "list"
    /\ \/ \E c \in running : running = {c} /\ found' = [found EXCEPT ![t] = c]
                             /\ call' = [call EXCEPT ![t] = "store"]
       \/ call' = [call EXCEPT ![t] = "failed"] /\ UNCHANGED found
    /\ UNCHANGED <<config, world, cached, login, raced, forwarded>>

Forget(t) ==   \* mutant: the container is not stored
    /\ call[t] = "store"
    /\ call' = [call EXCEPT ![t] = "found"]
    /\ UNCHANGED <<config, world, cached, login, found, raced, forwarded>>

Store(t) ==
    /\ call[t] = "store"
    /\ call' = [call EXCEPT ![t] = "found"]
    /\ cached' = found[t]
    /\ UNCHANGED <<config, world, login, found, raced, forwarded>>

(* Is the client's key in the files of a container?  A file that cannot be read is
   skipped.                                                                         *)
FindContainerKeys(c) == IF c \in listed THEN BOOLEAN ELSE {FALSE}

(* AuthorizeKeys *)
Authorize ==
    /\ call["auth"] = "found" /\ call' = [call EXCEPT !["auth"] = "idle"]
    /\ \E res \in FindContainerKeys(found["auth"]) :
          login' = IF res THEN found["auth"] ELSE login
    /\ UNCHANGED <<config, world, cached, found, raced, forwarded>>

AuthFailed ==
    /\ call["auth"] = "failed" /\ call' = [call EXCEPT !["auth"] = "idle"]
    /\ UNCHANGED <<config, world, cached, login, found, raced, forwarded>>

(* Handle: a process in the container found. *)
StartProcess(s) ==
    /\ s \in Sessions /\ call[s] = "found"
    /\ call' = [call EXCEPT ![s] = "started"]
    /\ UNCHANGED <<config, world, cached, login, found, raced, forwarded>>

(* filterInternal compares with the truncated port, and the library uses the port
   of the request, which does not exist beyond the span.                            *)
Forward(d, r) ==
    /\ login # "no" /\ ParseNetworkAddress(r) \in allowed[d] /\ r.port < PortSpan
    /\ forwarded' = [direction |-> d, address |-> r]
    /\ UNCHANGED <<config, world, cached, login, call, found, raced>>

StartOrStop(c) ==
    /\ stage = "listening"
    /\ running' \in {running \cup {c}, running \ {c}}
    /\ UNCHANGED <<config, listed, conn>>

NewServer == SkipNil \/ (\E c \in Configurations \ {"nil"} : ApplyHandler(c)) \/ ApplyOptions

Next ==
    \/ NewServer \/ ListenAndServe \/ OpenLogin \/ Authorize \/ AuthFailed
    \/ \E t \in Callers : BeginCall(t) \/ Check(t) \/ FindUniqueContainer(t) \/ Store(t)
    \/ \E s \in Sessions : StartProcess(s)
    \/ \E d \in Directions, r \in Requests : Forward(d, r)
    \/ \E c \in Containers : StartOrStop(c)

Spec == Init /\ [][Next]_vars

-----------------------------------------------------------------------------
(* The values the variables can take. *)
TypeOK ==
    /\ uses \in Seq(Configurations) /\ todo \in Seq(Configurations \cup {"options"})
    /\ opts \in [nil : BOOLEAN, unsafe : BOOLEAN, to : SUBSET Given, from : SUBSET Given]
    /\ stage \in {"configuring", "listening", "failed", "panicked"}
    /\ handler \in Configurations \cup {"none"} /\ auth \in {"none", "keys"}
    /\ DOMAIN allowed = Directions
    /\ \A d \in Directions : \A a \in allowed[d] : a.port \in 0..PortSpan - 1
    /\ running \subseteq Containers /\ listed \subseteq Containers
    /\ cached \in Containers \cup {"none"} /\ login \in Containers \cup {"no", "open"}
    /\ call \in [Callers -> {"idle", "check", "list", "store", "found", "failed", "started"}]
    /\ found \in [Callers -> Containers \cup {"none"}]
    /\ raced \in BOOLEAN
    /\ \/ forwarded = [direction |-> "none"]
       \/ forwarded \in [direction : Directions, address : Requests]

(* "This ensures that options like 'unsafe' work properly" (configuration.go:24):
   whatever configurations come in whatever order, a server that listens asks for
   keys exactly if docker was configured and the options do not disable it, and
   has the one handler it was given.  "When a configuration is nil,
   ApplyConfiguration does nothing" (configuration.go:37): that holds of all but
   the options, and nothing else panics.                                            *)
Real == {i \in 1..Len(uses) : uses[i] # "nil"}

ServerAsConfigured ==
    /\ stage = "listening" =>
          /\ auth = "keys" <=> (\E i \in Real : uses[i] = "docker") /\ ~opts.unsafe
          /\ handler = "none" <=> Real = {}
          /\ \A i \in Real : uses[i] = handler /\ Cardinality(Real) = 1
    /\ stage = "panicked" => opts.nil /\ Cardinality(Real) <= 1

(* Whatever was started or stopped since, a session runs in the container of the
   sessions before it: two sessions of a connection are in different ones only if two
   looked for one at once.  The sessions of an authenticated connection all run in the
   container whose files let the client in, however many begin at once.                *)
SameContainer ==
    handler = "docker" =>
        /\ \A s, t \in Sessions :
              call[s] = "started" /\ call[t] = "started" => found[s] = found[t] \/ raced
        /\ auth = "keys" =>
              /\ login # "no" => login \in listed /\ cached = login
              /\ \A s \in Sessions : call[s] = "started" => found[s] = login

(* Only addresses on the list of their direction are reached: those given, if their
   ports exist, and otherwise the ones with the same lower 16 bits.                  *)
ForwardsConfigured ==
    forwarded.direction # "none" =>
        \E a \in IF forwarded.direction = "to" THEN opts.to ELSE opts.from :
            /\ a.host = forwarded.address.host
            /\ a.port % PortSpan = forwarded.address.port
            /\ a.port < PortSpan => a = forwarded.address
=============================================================================
