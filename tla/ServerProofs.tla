------------------------------ MODULE ServerProofs ------------------------------
(***************************************************************************)
(* What a server keeps from NewServer to its sessions, for every sequence  *)
(* of configurations, every set of containers, sessions and addresses, and *)
(* every number of ports.  Configured is inductive for the server's        *)
(* fields, and Connected and Sharing for a connection.                     *)
(***************************************************************************)
EXTENDS Server, FiniteSetTheorems, TLAPS

(* How many configurations were applied, and which of those were not nil. *)
Count == Len(uses) + 1 - Len(todo)
Applied == {i \in Real : i <= Count}

(* What is to be applied is what follows in the order, the options at the end. *)
Remaining ==
    /\ Len(todo) <= Len(uses) + 1
    /\ \A i \in 1..Len(todo) :
          todo[i] = IF i = Len(todo) THEN "options" ELSE uses[Count + i]

(* The handler is the one of the only configuration applied, and keys are asked for
   if that is docker's, until the options have their say.                           *)
Configured ==
    stage \in {"configuring", "listening"} =>
        /\ Remaining
        /\ stage = "listening" => todo = <<>>
        /\ handler = "none" <=> Applied = {}
        /\ \A i \in Applied : uses[i] = handler /\ Applied = {i}
        /\ auth = "keys" <=> /\ \E i \in Applied : uses[i] = "docker"
                             /\ todo = <<>> => ~opts.unsafe

AllowedGiven ==
    \A d \in Directions :
       allowed[d] \subseteq {ParseNetworkAddress(a) : a \in AddressList(d)}

(* Whoever looks for a container after the login finds the one in the context. *)
Connected ==
    /\ stage # "listening" => /\ cached = "none" /\ login = "no"
                              /\ \A t \in Callers : call[t] = "idle"
    /\ auth = "keys" /\ handler = "docker" =>
          /\ login # "open"
          /\ login = "no" => \A s \in Sessions : call[s] = "idle"
          /\ login # "no" => login \in listed /\ cached = login /\ call["auth"] = "idle"
          /\ \A s \in Sessions : /\ call[s] \in {"idle", "check", "found", "started"}
                                 /\ call[s] \in {"found", "started"} => found[s] = login
          /\ call["auth"] = "found" => cached \in Containers /\ found["auth"] = cached
          /\ call["auth"] = "store" => found["auth"] \in Containers

(* As long as no two looked at once, there is one who looks while nothing is cached,
   and whoever has found a container has the cached one.                             *)
Sharing ==
    /\ \A t \in Callers : call[t] = "store" => found[t] # "none"
    /\ ~raced =>
          /\ \A t, u \in Callers : Looking(t) /\ Looking(u) => t = u
          /\ \A t \in Callers : Looking(t) => cached = "none"
          /\ \A t \in Callers :
                call[t] = "found" \/ (call[t] = "started" /\ handler = "docker")
                   => cached # "none" /\ found[t] = cached

ServerInv ==
    /\ TypeOK /\ Configured /\ ServerAsConfigured
    /\ AllowedGiven /\ ForwardsConfigured /\ Connected /\ Sharing

-----------------------------------------------------------------------------
(* A port of the list is one that exists, and ports that exist are not changed. *)
LEMMA Truncated ==
    ASSUME NEW p \in Nat
    PROVE  NetworkPort(p) \in 0..PortSpan - 1 /\ (p < PortSpan => NetworkPort(p) = p)
BY ServerAssumption DEF NetworkPort

LEMMA Parsed ==
    ASSUME NEW a \in Given \cup Requests
    PROVE  /\ ParseNetworkAddress(a) = [host |-> a.host, port |-> NetworkPort(a.port)]
           /\ a = [host |-> a.host, port |-> a.port] /\ a.port \in Nat
<1>1. a = [host |-> a.host, port |-> a.port] /\ a.port \in Nat
  BY ServerAssumption
<1>2. [[host |-> a.host, port |-> a.port] EXCEPT !.port = NetworkPort(@)]
         = [host |-> a.host, port |-> NetworkPort(a.port)]
  OBVIOUS
<1> QED  BY <1>1, <1>2 DEF ParseNetworkAddress

LEMMA TypeInit == Init => TypeOK
<1> SUFFICES ASSUME Init PROVE TypeOK
  OBVIOUS
<1>1. uses \in Seq(Configurations)
  <2>1. \A c \in Configurations : <<c>> \in Seq(Configurations)
    OBVIOUS
  <2>2. \/ uses \in LibraryUses
        \/ \E p \in {dockersshd, simplesshd, exposshed} : uses = p.uses
    BY DEF Init
  <2>3. \A p \in {dockersshd, simplesshd, exposshed} : p.uses \in Seq(Configurations)
    <3>1. dockersshd.uses = <<"docker">> /\ simplesshd.uses = <<"system">>
          /\ exposshed.uses = <<"repl">>
      BY DEF dockersshd, simplesshd, exposshed
    <3> QED  BY <2>1, <3>1 DEF Configurations
  <2> QED  BY <2>2, <2>3, ServerAssumption
<1>2. todo \in Seq(Configurations \cup {"options"})
  BY <1>1 DEF Init, Order
<1>3. opts \in [nil : BOOLEAN, unsafe : BOOLEAN, to : SUBSET Given, from : SUBSET Given]
  <2>1. \A p \in {dockersshd, simplesshd, exposshed} : p.unsafe \subseteq BOOLEAN
    <3>1. /\ dockersshd.unsafe = Unsafe(FALSE, TRUE)
          /\ simplesshd.unsafe = Unsafe(FALSE, FALSE)
          /\ exposshed.unsafe = Unsafe(TRUE, FALSE)
      BY DEF dockersshd, simplesshd, exposshed
    <3>2. /\ Unsafe(FALSE, TRUE) \subseteq BOOLEAN /\ Unsafe(FALSE, FALSE) \subseteq BOOLEAN
          /\ Unsafe(TRUE, FALSE) \subseteq BOOLEAN
      BY Zenon DEF Unsafe
    <3> QED  BY <3>1, <3>2, Zenon
  <2> DEFINE Flags(p) ==
        opts \in [nil : {FALSE}, unsafe : p.unsafe, to : AddressLists, from : AddressLists]
  <2>2. CASE \E p \in {dockersshd, simplesshd, exposshed} : Flags(p)
    <3>1. PICK p \in {dockersshd, simplesshd, exposshed} : Flags(p)
      BY <2>2
    <3>2. p.unsafe \subseteq BOOLEAN /\ {FALSE} \subseteq BOOLEAN
      BY <2>1
    <3> QED  BY <3>1, <3>2 DEF AddressLists
  <2>3. CASE opts \in [nil : BOOLEAN, unsafe : BOOLEAN, to : {{}}, from : {{}}]
    <3>1. {{}} \subseteq SUBSET Given
      OBVIOUS
    <3> QED  BY <2>3, <3>1
  <2> QED  BY <2>2, <2>3 DEF Init
<1> QED  BY <1>1, <1>2, <1>3 DEF Init, TypeOK

LEMMA ListedType ==
    ASSUME TypeOK, NEW d \in Directions
    PROVE  AddressList(d) \subseteq Given
BY DEF TypeOK, AddressList

LEMMA TypeNext == TypeOK /\ [Next]_vars => TypeOK'
<1> SUFFICES ASSUME TypeOK, [Next]_vars PROVE TypeOK'
  OBVIOUS
<1> USE DEF TypeOK
<1>0. \A c : Applying(c) => todo' \in Seq(Configurations \cup {"options"})
  BY DEF Applying
<1>1. CASE SkipNil
  BY <1>0, <1>1 DEF SkipNil, world, conn
<1>2. ASSUME NEW c \in Configurations \ {"nil"}, ApplyHandler(c) PROVE TypeOK'
  BY <1>0, <1>2 DEF ApplyHandler, world, conn
<1>3. CASE ApplyOptions
  <2>1. /\ todo' \in Seq(Configurations \cup {"options"})
        /\ stage' \in {"configuring", "failed", "panicked"} /\ auth' \in {"none", "keys"}
    BY <1>0, <1>3 DEF ApplyOptions
  <2>2. /\ DOMAIN allowed' = Directions
        /\ \A d \in Directions : \A a \in allowed'[d] : a.port \in 0..PortSpan - 1
    <3>1. CASE opts.nil
      BY <1>3, <3>1 DEF ApplyOptions
    <3>2. CASE ~opts.nil
      <4>1. allowed' =
              [d \in Directions |-> {ParseNetworkAddress(a) : a \in AddressList(d)}]
        BY <1>3, <3>2 DEF ApplyOptions
      <4>2. ASSUME NEW d \in Directions, NEW a \in AddressList(d)
            PROVE  ParseNetworkAddress(a).port \in 0..PortSpan - 1
        <5>1. a \in Given
          BY ListedType
        <5> QED  BY <5>1, Parsed, Truncated
      <4> QED  BY <4>1, <4>2
    <3> QED  BY <3>1, <3>2
  <2> QED  BY <1>3, <2>1, <2>2 DEF ApplyOptions, world, conn
<1>4. CASE ListenAndServe  BY <1>4 DEF ListenAndServe, world, conn
<1>5. CASE OpenLogin  BY <1>5 DEF OpenLogin, config, world
<1>6. CASE Authorize
  <2>1. PICK res \in FindContainerKeys(found["auth"]) :
           login' = IF res THEN found["auth"] ELSE login
    BY <1>6 DEF Authorize
  <2>2. res => found["auth"] \in Containers
    BY DEF FindContainerKeys
  <2>3. login' \in Containers \cup {"no", "open"}
    BY <2>1, <2>2
  <2>4. call' = [call EXCEPT !["auth"] = "idle"] /\ "auth" \in Callers
        /\ UNCHANGED <<config, world, cached, found, raced, forwarded>>
    BY <1>6 DEF Authorize, Callers
  <2> QED  BY <2>3, <2>4 DEF config, world
<1>7. CASE AuthFailed  BY <1>7 DEF AuthFailed, config, world
<1>8. ASSUME NEW t \in Callers, BeginCall(t) PROVE TypeOK'
  BY <1>8 DEF BeginCall, config, world
<1>9. ASSUME NEW t \in Callers, Check(t) PROVE TypeOK'
  <2>1. raced' \in BOOLEAN
    BY <1>9, Zenon DEF Check
  <2>2. /\ call' \in [Callers -> {"idle", "check", "list", "store", "found", "failed",
                               "started"}]
        /\ found' \in [Callers -> Containers \cup {"none"}]
    BY <1>9 DEF Check
  <2>3. UNCHANGED <<config, world, cached, login, forwarded>>
    BY <1>9 DEF Check
  <2> QED  BY <2>1, <2>2, <2>3 DEF config, world
<1>10. ASSUME NEW t \in Callers, FindUniqueContainer(t) PROVE TypeOK'
  BY <1>10 DEF FindUniqueContainer, config, world
<1>11. ASSUME NEW t \in Callers, Store(t) PROVE TypeOK'
  BY <1>11 DEF Store, config, world
<1>12. ASSUME NEW s \in Sessions, StartProcess(s) PROVE TypeOK'
  BY <1>12 DEF StartProcess, config, world
<1>13. ASSUME NEW d \in Directions, NEW r \in Requests, Forward(d, r) PROVE TypeOK'
  BY <1>13 DEF Forward, config, world
<1>14. ASSUME NEW c \in Containers, StartOrStop(c) PROVE TypeOK'
  BY <1>14 DEF StartOrStop, config, conn
<1>15. CASE UNCHANGED vars  BY <1>15 DEF vars, config, world, conn
<1> QED
  BY <1>1, <1>2, <1>3, <1>4, <1>5, <1>6, <1>7, <1>8, <1>9, <1>10, <1>11, <1>12, <1>13,
     <1>14, <1>15 DEF Next, NewServer

-----------------------------------------------------------------------------
(* Applying takes the next of what remains. *)
LEMMA ApplyingNext ==
    ASSUME TypeOK, Remaining, NEW c, Applying(c), UNCHANGED uses
    PROVE  /\ Remaining' /\ Count' = Count + 1 /\ Count \in Nat
           /\ \/ c = "options" /\ todo' = <<>> /\ Count = Len(uses)
              \/ /\ c # "options" /\ todo' # <<>>
                 /\ Count + 1 \in 1..Len(uses) /\ uses[Count + 1] = c
<1>1. /\ Len(uses) \in Nat /\ Len(todo) \in Nat
      /\ Len(todo) >= 1 /\ Len(todo) <= Len(uses) + 1
      /\ Len(todo') = Len(todo) - 1
      /\ \A i \in 1..Len(todo) - 1 : todo'[i] = todo[i + 1]
      /\ c = todo[1]
      /\ \A i \in 1..Len(uses) : uses[i] \in Configurations
      /\ todo' \in Seq(Configurations \cup {"options"})
  BY DEF TypeOK, Applying, Remaining
<1>2. Count' = Count + 1 /\ Count \in Nat
  BY <1>1 DEF Count
<1>3. Remaining'
  <2>1. Len(todo') <= Len(uses') + 1
    BY <1>1
  <2>2. ASSUME NEW i \in 1..Len(todo')
        PROVE  todo'[i] = IF i = Len(todo') THEN "options" ELSE uses'[Count' + i]
    <3>1. i \in 1..Len(todo) - 1 /\ i + 1 \in 1..Len(todo) /\ todo'[i] = todo[i + 1]
      BY <1>1
    <3>2. todo[i + 1] = IF i + 1 = Len(todo) THEN "options" ELSE uses[Count + (i + 1)]
      BY <3>1 DEF Remaining
    <3>3. (i + 1 = Len(todo) <=> i = Len(todo')) /\ Count + (i + 1) = Count' + i
      BY <1>1, <1>2
    <3> QED  BY <3>1, <3>2, <3>3
  <2> QED  BY <2>1, <2>2 DEF Remaining
<1>4. c = IF Len(todo) = 1 THEN "options" ELSE uses[Count + 1]
  BY <1>1 DEF Remaining
<1>5. CASE Len(todo) = 1
  BY <1>1, <1>2, <1>3, <1>4, <1>5 DEF Count
<1>6. CASE Len(todo) # 1
  <2>1. Count + 1 \in 1..Len(uses) /\ todo' # <<>>
    BY <1>1, <1>6 DEF Count
  <2>2. c \in Configurations
    BY <1>1, <1>4, <1>6, <2>1
  <2> QED  BY <1>2, <1>3, <1>4, <1>6, <2>1, <2>2 DEF Configurations
<1> QED  BY <1>5, <1>6

LEMMA ConfiguredInit == Init => Configured /\ ServerAsConfigured /\ AllowedGiven
<1> SUFFICES ASSUME Init PROVE Configured /\ ServerAsConfigured /\ AllowedGiven
  OBVIOUS
<1>1. TypeOK
  BY TypeInit
<1>2. /\ stage = "configuring" /\ handler = "none" /\ auth = "none"
      /\ todo = uses \o <<"options">> /\ allowed = [d \in Directions |-> {}]
  BY DEF Init, Order
<1>3. /\ Len(uses) \in Nat /\ Len(todo) = Len(uses) + 1
      /\ \A i \in 1..Len(todo) : todo[i] = IF i = Len(todo) THEN "options" ELSE uses[i]
  BY <1>1, <1>2 DEF TypeOK
<1>4. Count = 0 /\ Applied = {}
  BY <1>3 DEF Count, Applied, Real
<1>5. Remaining
  BY <1>3, <1>4 DEF Remaining
<1>6. todo # <<>>
  BY <1>3
<1> QED  BY <1>2, <1>4, <1>5, <1>6 DEF Configured, ServerAsConfigured, AllowedGiven

LEMMA ConfiguredNext == TypeOK /\ Configured /\ [Next]_vars => Configured'
<1> SUFFICES ASSUME TypeOK, Configured, [Next]_vars PROVE Configured'
  OBVIOUS
<1>1. CASE SkipNil
  <2>1. Applying("nil") /\ UNCHANGED <<uses, opts, stage, handler, auth>> /\ stage = "configuring"
    BY <1>1 DEF SkipNil, Applying
  <2>2. /\ Remaining' /\ Count' = Count + 1 /\ Count \in Nat
        /\ todo' # <<>> /\ uses[Count + 1] = "nil"
    BY <2>1, ApplyingNext DEF Configured
  <2>3. Applied' = Applied
    BY <2>1, <2>2 DEF Applied, Real
  <2>4. todo # <<>>
    BY <2>1 DEF Applying
  <2> QED  BY <2>1, <2>2, <2>3, <2>4 DEF Configured
<1>2. ASSUME NEW c \in Configurations \ {"nil"}, ApplyHandler(c) PROVE Configured'
  <2>1. Applying(c) /\ UNCHANGED <<uses, opts>> /\ stage = "configuring"
    BY <1>2 DEF ApplyHandler, Applying
  <2>2. c \notin {"options", "nil", "none"}
    BY DEF Configurations
  <2>3. CASE handler = "none"
    <3>1. Applied = {}
      BY <2>1, <2>3 DEF Configured
    <3>2. /\ Remaining' /\ Count' = Count + 1 /\ Count \in Nat
          /\ todo' # <<>> /\ Count + 1 \in 1..Len(uses) /\ uses[Count + 1] = c
      BY <2>1, <2>2, ApplyingNext DEF Configured
    <3>3. Applied' = {Count + 1}
      <4>1. \A i \in Real : i <= Count + 1 => i = Count + 1
        BY <3>1, <3>2 DEF Applied, Real
      <4>2. Count + 1 \in Real
        BY <2>2, <3>2 DEF Real
      <4> QED  BY <2>1, <3>2, <4>1, <4>2 DEF Applied, Real
    <3>4. handler' = c /\ stage' = stage /\ auth' = IF c = "docker" THEN "keys" ELSE auth
      BY <1>2, <2>3 DEF ApplyHandler
    <3>5. auth # "keys"
      BY <2>1, <3>1 DEF Configured
    <3> QED  BY <2>1, <2>2, <3>2, <3>3, <3>4, <3>5 DEF Configured
  <2>4. CASE handler # "none"
    BY <1>2, <2>4 DEF ApplyHandler, Configured
  <2> QED  BY <2>3, <2>4
<1>3. CASE ApplyOptions
  <2>1. Applying("options") /\ UNCHANGED <<uses, opts, handler>> /\ stage = "configuring"
    BY <1>3 DEF ApplyOptions, Applying
  <2>2. Remaining' /\ Count' = Count + 1 /\ todo' = <<>> /\ Count = Len(uses)
    BY <2>1, ApplyingNext DEF Configured
  <2>3. Applied' = Applied
    BY <2>1, <2>2 DEF Applied, Real, TypeOK
  <2>4. CASE opts.nil
    BY <1>3, <2>4 DEF ApplyOptions, Configured
  <2>5. CASE ~opts.nil
    <3>1. auth' = (IF opts.unsafe THEN "none" ELSE auth) /\ stage' \in {"configuring", "failed"}
      BY <1>3, <2>5 DEF ApplyOptions
    <3>2. todo # <<>>
      BY <2>1 DEF Applying
    <3> QED  BY <2>1, <2>2, <2>3, <3>1, <3>2 DEF Configured
  <2> QED  BY <2>4, <2>5
<1>4. CASE ListenAndServe
  <2>1. UNCHANGED <<uses, opts, todo, handler, auth>> /\ stage = "configuring" /\ todo = <<>>
    BY <1>4 DEF ListenAndServe
  <2> QED  BY <2>1 DEF Configured, Remaining, Applied, Count, Real
<1>5. CASE UNCHANGED config
  BY <1>5 DEF config, Configured, Remaining, Applied, Count, Real
<1> QED
  BY <1>1, <1>2, <1>3, <1>4, <1>5
     DEF Next, NewServer, OpenLogin, Authorize, AuthFailed, BeginCall, Check,
         FindUniqueContainer, Store, StartProcess, Forward, StartOrStop, vars

(* One configuration at most was applied to a server that went on. *)
LEMMA OneApplied ==
    ASSUME TypeOK, Configured, stage \in {"configuring", "listening"}
    PROVE  Cardinality(Applied) <= 1 /\ \A i \in Applied : Cardinality(Applied) = 1
<1>1. CASE Applied = {}
  BY <1>1, FS_EmptySet
<1>2. CASE Applied # {}
  <2>1. PICK i \in Applied : Applied = {i}
    BY <1>2 DEF Configured
  <2>2. Cardinality(Applied) = 1
    BY <2>1, FS_Singleton
  <2> QED  BY <2>2
<1> QED  BY <1>1, <1>2

LEMMA AllApplied ==
    ASSUME TypeOK, Count >= Len(uses)
    PROVE  Applied = Real
BY DEF TypeOK, Count, Applied, Real

Listens ==
    /\ auth = "keys" <=> (\E i \in Real : uses[i] = "docker") /\ ~opts.unsafe
    /\ handler = "none" <=> Real = {}
    /\ \A i \in Real : uses[i] = handler /\ Cardinality(Real) = 1

LEMMA Listening == TypeOK /\ Configured /\ stage = "listening" => Listens
<1> SUFFICES ASSUME TypeOK, Configured, stage = "listening" PROVE Listens
  OBVIOUS
<1>1. todo = <<>> /\ Count >= Len(uses)
  BY DEF Configured, Count, TypeOK
<1>2. Applied = Real
  BY <1>1, AllApplied
<1>3. \A i \in Real : Cardinality(Real) = 1
  BY <1>2, OneApplied
<1> QED  BY <1>1, <1>2, <1>3 DEF Configured, Listens

LEMMA AsConfiguredNext ==
    TypeOK /\ TypeOK' /\ Configured /\ Configured' /\ ServerAsConfigured /\ [Next]_vars
        => ServerAsConfigured'
<1>1. (TypeOK /\ Configured /\ stage = "listening" => Listens)'
  BY Listening, PTL
<1> SUFFICES ASSUME TypeOK, TypeOK', Configured, Configured', ServerAsConfigured, [Next]_vars
             PROVE  ServerAsConfigured'
  OBVIOUS
<1>2. stage' = "listening" => Listens'
  BY <1>1
<1>3. stage' = "panicked" => opts'.nil /\ Cardinality(Real') <= 1
  <2>1. CASE ApplyOptions
    <3>1. Applying("options") /\ UNCHANGED <<uses, opts>> /\ stage = "configuring"
      BY <2>1 DEF ApplyOptions, Applying
    <3>2. Count = Len(uses) /\ Len(uses) \in Nat
      BY <3>1, ApplyingNext DEF Configured, TypeOK
    <3>3. Applied = Real
      BY <3>2, AllApplied
    <3>4. Cardinality(Real) <= 1
      BY <3>1, <3>3, OneApplied
    <3>5. stage' = "panicked" => opts.nil
      BY <2>1 DEF ApplyOptions
    <3> QED  BY <3>1, <3>4, <3>5 DEF Real
  <2>2. CASE UNCHANGED <<uses, opts>> /\ (stage' = "panicked" => stage = "panicked")
    BY <2>2 DEF ServerAsConfigured, Real
  <2> QED
    BY <2>1, <2>2
       DEF Next, NewServer, SkipNil, ApplyHandler, Applying, ListenAndServe, OpenLogin,
           Authorize, AuthFailed, BeginCall, Check, FindUniqueContainer, Store, StartProcess, Forward,
           StartOrStop, vars, config
<1> QED  BY <1>2, <1>3 DEF ServerAsConfigured, Listens

LEMMA AllowedNext == AllowedGiven /\ [Next]_vars => AllowedGiven'
<1> SUFFICES ASSUME AllowedGiven, [Next]_vars PROVE AllowedGiven'
  OBVIOUS
<1>1. CASE UNCHANGED <<allowed, opts>>
  BY <1>1 DEF AllowedGiven, AddressList
<1>2. CASE ApplyOptions /\ ~opts.nil
  BY <1>2 DEF ApplyOptions, AllowedGiven, AddressList
<1> QED
  BY <1>1, <1>2
     DEF Next, NewServer, SkipNil, ApplyHandler, ApplyOptions, ListenAndServe, OpenLogin,
         Authorize, AuthFailed, BeginCall, Check, FindUniqueContainer, Store, StartProcess, Forward,
         StartOrStop, vars, config

LEMMA ForwardsNext ==
    TypeOK /\ AllowedGiven /\ ForwardsConfigured /\ [Next]_vars => ForwardsConfigured'
<1> SUFFICES ASSUME TypeOK, AllowedGiven, ForwardsConfigured, [Next]_vars
             PROVE  ForwardsConfigured'
  OBVIOUS
<1>1. ASSUME NEW d \in Directions, NEW r \in Requests, Forward(d, r)
      PROVE  ForwardsConfigured'
  <2>1. /\ ParseNetworkAddress(r) \in allowed[d] /\ r.port < PortSpan /\ opts' = opts
        /\ forwarded' = [direction |-> d, address |-> r]
    BY <1>1 DEF Forward, config
  <2>2. PICK a \in AddressList(d) : ParseNetworkAddress(r) = ParseNetworkAddress(a)
    BY <2>1 DEF AllowedGiven
  <2>3. a \in Given
    BY ListedType
  <2>4. a.host = r.host /\ NetworkPort(a.port) = NetworkPort(r.port)
    BY <2>2, <2>3, Parsed
  <2>5. NetworkPort(r.port) = r.port /\ (a.port < PortSpan => NetworkPort(a.port) = a.port)
    BY <2>1, <2>3, Parsed, Truncated
  <2>6. a.port < PortSpan => a = r
    BY <2>3, <2>4, <2>5, Parsed
  <2> QED  BY <2>1, <2>4, <2>5, <2>6 DEF ForwardsConfigured, AddressList, NetworkPort
<1>2. CASE UNCHANGED <<forwarded, opts>>
  BY <1>2 DEF ForwardsConfigured
<1> QED
  BY <1>1, <1>2
     DEF Next, NewServer, SkipNil, ApplyHandler, ApplyOptions, ListenAndServe, OpenLogin,
         Authorize, AuthFailed, BeginCall, Check, FindUniqueContainer, Store, StartProcess,
         StartOrStop, vars, config, conn

-----------------------------------------------------------------------------
LEMMA ConnectedInit == Init => Connected /\ ForwardsConfigured
BY DEF Init, Connected, ForwardsConfigured

(* While the server is set up, no one is connected. *)
LEMMA ConnectedSetUp ==
    ASSUME TypeOK, Connected, stage # "listening", UNCHANGED conn, NewServer \/ ListenAndServe
    PROVE  Connected'
<1>1. cached' = "none" /\ login' = "no" /\ \A t \in Callers : call'[t] = "idle"
  BY DEF Connected, conn
<1> QED  BY <1>1 DEF Connected, Callers

LEMMA ConnectedNext == TypeOK /\ Connected /\ [Next]_vars => Connected'
<1> SUFFICES ASSUME TypeOK, Connected, [Next]_vars PROVE Connected'
  OBVIOUS
<1> DEFINE Kept == auth = "keys" /\ handler = "docker"
<1>0. "auth" \in Callers /\ "auth" \notin Sessions /\ Sessions \subseteq Callers
      /\ {"none", "no", "open"} \cap Containers = {}
  BY ServerAssumption DEF Callers
<1>1. CASE NewServer \/ ListenAndServe
  <2>1. stage # "listening" /\ UNCHANGED conn
    BY <1>1 DEF NewServer, SkipNil, ApplyHandler, ApplyOptions, Applying, ListenAndServe
  <2> QED  BY <1>1, <2>1, ConnectedSetUp
<1>2. CASE UNCHANGED <<config, listed, conn>>
  BY <1>2 DEF config, conn, Connected
<1>3. ASSUME NEW d \in Directions, NEW r \in Requests, Forward(d, r) PROVE Connected'
  BY <1>3 DEF Forward, config, world, Connected
<1>4. CASE OpenLogin
  BY <1>4 DEF OpenLogin, config, world, Connected
<1>5. CASE Authorize
  <2>1. UNCHANGED <<config, world, cached, found>> /\ call' = [call EXCEPT !["auth"] = "idle"]
        /\ call["auth"] = "found"
    BY <1>5 DEF Authorize
  <2>2. stage = "listening"
    BY <1>0, <2>1 DEF Connected
  <2>3. login' = login \/ (login' = found["auth"] /\ found["auth"] \in listed)
    BY <1>5 DEF Authorize, FindContainerKeys
  <2>4. call'["auth"] = "idle" /\ \A s \in Sessions : call'[s] = call[s]
    BY <1>0, <2>1 DEF TypeOK
  <2>5. ASSUME Kept
        PROVE  /\ login = "no" /\ cached = found["auth"] /\ cached \in Containers
               /\ \A s \in Sessions : call[s] = "idle"
    BY <2>1, <2>5 DEF Connected
  <2> QED  BY <1>0, <2>1, <2>2, <2>3, <2>4, <2>5 DEF Connected, config, world
<1>6. CASE AuthFailed
  <2>1. /\ UNCHANGED <<config, world, cached, login, found>>
        /\ call' = [call EXCEPT !["auth"] = "idle"] /\ call["auth"] = "failed"
    BY <1>6 DEF AuthFailed
  <2>2. stage = "listening"
    BY <1>0, <2>1 DEF Connected
  <2>3. call'["auth"] = "idle" /\ \A s \in Sessions : call'[s] = call[s]
    BY <1>0, <2>1 DEF TypeOK
  <2> QED  BY <1>0, <2>1, <2>2, <2>3 DEF Connected, config, world
<1>7. ASSUME NEW t \in Callers, BeginCall(t) PROVE Connected'
  <2>1. /\ stage = "listening" /\ UNCHANGED <<config, world, cached, login, found>>
        /\ call' = [call EXCEPT ![t] = IF NeedsContainer(t) THEN "check" ELSE "started"]
    BY <1>7 DEF BeginCall
  <2>2. \A u \in Callers :
           call'[u] = IF u = t THEN IF NeedsContainer(t) THEN "check" ELSE "started"
                               ELSE call[u]
    BY <2>1 DEF TypeOK
  <2>3. Kept => NeedsContainer(t)
    BY DEF NeedsContainer
  <2>4. IF t = "auth" THEN login = "no" ELSE login # "no"
    BY <1>7 DEF BeginCall
  <2> QED  BY <1>0, <2>1, <2>2, <2>3, <2>4 DEF Connected, config, world
<1>8. ASSUME NEW t \in Callers, Check(t) PROVE Connected'
  <2>1. call[t] = "check" /\ UNCHANGED <<config, world, cached, login>>
    BY <1>8 DEF Check
  <2>2. stage = "listening"
    BY <2>1 DEF Connected
  <2>3. CASE cached = "none"
    <3>1. call' = [call EXCEPT ![t] = "list"] /\ found' = found
      BY <1>8, <2>3 DEF Check
    <3>2. \A u \in Callers : call'[u] = IF u = t THEN "list" ELSE call[u]
      BY <3>1 DEF TypeOK
    <3>3. Kept => t = "auth"
      <4>1. login \in Containers \cup {"no", "open"}
        BY DEF TypeOK
      <4> QED  BY <1>0, <2>1, <2>2, <2>3, <4>1 DEF Connected, Callers, TypeOK
    <3> QED  BY <1>0, <2>1, <2>2, <2>3, <3>1, <3>2, <3>3 DEF Connected, config, world
  <2>4. CASE cached # "none"
    <3>1. call' = [call EXCEPT ![t] = "found"] /\ found' = [found EXCEPT ![t] = cached]
      BY <1>8, <2>4 DEF Check
    <3>2. /\ \A u \in Callers : call'[u] = IF u = t THEN "found" ELSE call[u]
          /\ \A u \in Callers : found'[u] = IF u = t THEN cached ELSE found[u]
          /\ cached \in Containers
      BY <2>4, <3>1 DEF TypeOK
    <3> QED  BY <1>0, <2>1, <2>2, <3>2 DEF Connected, config, world
  <2> QED  BY <2>3, <2>4
<1>9. ASSUME NEW t \in Callers, FindUniqueContainer(t) PROVE Connected'
  <2>1. call[t] = "list" /\ UNCHANGED <<config, world, cached, login>>
    BY <1>9 DEF FindUniqueContainer
  <2>2. stage = "listening"
    BY <2>1 DEF Connected
  <2>3. /\ \A u \in Callers \ {t} : call'[u] = call[u] /\ found'[u] = found[u]
        /\ \/ call'[t] = "store" /\ found'[t] \in Containers
           \/ call'[t] = "failed"
    BY <1>9 DEF FindUniqueContainer, TypeOK
  <2>4. Kept => t = "auth"
    BY <2>1, <2>2 DEF Connected, Callers
  <2> QED  BY <1>0, <2>1, <2>2, <2>3, <2>4 DEF Connected, config, world
<1>10. ASSUME NEW t \in Callers, Store(t) PROVE Connected'
  <2>1. call[t] = "store" /\ cached' = found[t] /\ UNCHANGED <<config, world, login, found>>
    BY <1>10 DEF Store
  <2>2. stage = "listening"
    BY <2>1 DEF Connected
  <2>3. \A u \in Callers : call'[u] = IF u = t THEN "found" ELSE call[u]
    BY <1>10 DEF Store, TypeOK
  <2>4. Kept => t = "auth"
    BY <2>1, <2>2 DEF Connected, Callers
  <2> QED  BY <1>0, <2>1, <2>2, <2>3, <2>4 DEF Connected, config, world
<1>11. ASSUME NEW s \in Sessions, StartProcess(s) PROVE Connected'
  <2>1. call[s] = "found" /\ UNCHANGED <<config, world, cached, login, found>>
    BY <1>11 DEF StartProcess
  <2>2. stage = "listening"
    BY <1>0, <2>1 DEF Connected
  <2>3. \A u \in Callers : call'[u] = IF u = s THEN "started" ELSE call[u]
    BY <1>0, <1>11 DEF StartProcess, TypeOK
  <2> QED  BY <1>0, <2>1, <2>2, <2>3 DEF Connected, config, world
<1> QED
  BY <1>1, <1>2, <1>3, <1>4, <1>5, <1>6, <1>7, <1>8, <1>9, <1>10, <1>11
     DEF Next, StartOrStop, vars, world

LEMMA SharingInit == Init => Sharing
BY DEF Init, Sharing, Looking

LEMMA SharingNext == TypeOK /\ Connected /\ Sharing /\ [Next]_vars => Sharing'
<1> SUFFICES ASSUME TypeOK, Connected, Sharing, [Next]_vars PROVE Sharing'
  OBVIOUS
<1> USE DEF Sharing, Looking
<1>0. "auth" \in Callers /\ Sessions \subseteq Callers /\ "none" \notin Containers
  BY ServerAssumption DEF Callers
<1>1. CASE NewServer \/ ListenAndServe
  <2>1. stage # "listening" /\ UNCHANGED conn
    BY <1>1 DEF NewServer, SkipNil, ApplyHandler, ApplyOptions, Applying, ListenAndServe
  <2>2. \A t \in Callers : call'[t] = "idle"
    BY <2>1 DEF Connected, conn
  <2> QED  BY <2>2
<1>2. CASE UNCHANGED <<handler, cached, call, found, raced>>
  BY <1>2
<1>3. CASE Authorize \/ AuthFailed
  <2>1. call' = [call EXCEPT !["auth"] = "idle"] /\ UNCHANGED <<handler, cached, found, raced>>
    BY <1>3 DEF Authorize, AuthFailed, config
  <2>2. \A u \in Callers : call'[u] = IF u = "auth" THEN "idle" ELSE call[u]
    BY <1>0, <2>1 DEF TypeOK
  <2> QED  BY <2>1, <2>2
<1>4. ASSUME NEW t \in Callers, BeginCall(t) PROVE Sharing'
  <2>1. UNCHANGED <<handler, cached, found, raced>>
    BY <1>4 DEF BeginCall, config
  <2>2. \A u \in Callers :
           call'[u] = IF u = t THEN IF NeedsContainer(t) THEN "check" ELSE "started"
                               ELSE call[u]
    BY <1>4 DEF BeginCall, TypeOK
  <2> QED  BY <2>1, <2>2 DEF NeedsContainer
<1>5. ASSUME NEW t \in Callers, Check(t), cached = "none" PROVE Sharing'
  <2>1. /\ UNCHANGED <<handler, cached, found>>
        /\ raced' = (raced \/ \E u \in Callers : Looking(u))
    BY <1>5 DEF Check, config
  <2>2. \A u \in Callers : call'[u] = IF u = t THEN "list" ELSE call[u]
    BY <1>5 DEF Check, TypeOK
  <2>3. ~raced' => ~raced /\ \A u \in Callers : ~Looking(u)
    BY <2>1, Zenon
  <2> QED  BY <1>5, <2>1, <2>2, <2>3
<1>6. ASSUME NEW t \in Callers, Check(t), cached # "none" PROVE Sharing'
  <2>1. UNCHANGED <<handler, cached, raced>>
    BY <1>6 DEF Check, config
  <2>2. /\ \A u \in Callers : call'[u] = IF u = t THEN "found" ELSE call[u]
        /\ \A u \in Callers : found'[u] = IF u = t THEN cached ELSE found[u]
    BY <1>6 DEF Check, TypeOK
  <2> QED  BY <1>6, <2>1, <2>2
<1>7. ASSUME NEW t \in Callers, FindUniqueContainer(t) PROVE Sharing'
  <2>1. call[t] = "list" /\ UNCHANGED <<handler, cached, raced>>
    BY <1>7 DEF FindUniqueContainer, config
  <2>2. /\ \A u \in Callers \ {t} : call'[u] = call[u] /\ found'[u] = found[u]
        /\ \/ call'[t] = "store" /\ found'[t] \in Containers
           \/ call'[t] = "failed"
    BY <1>7 DEF FindUniqueContainer, TypeOK
  <2> QED  BY <1>0, <2>1, <2>2
<1>8. ASSUME NEW t \in Callers, Store(t) PROVE Sharing'
  <2>1. call[t] = "store" /\ cached' = found[t] /\ UNCHANGED <<handler, found, raced>>
    BY <1>8 DEF Store, config
  <2>2. \A u \in Callers : call'[u] = IF u = t THEN "found" ELSE call[u]
    BY <1>8 DEF Store, TypeOK
  <2>3. ~raced => cached = "none"
    BY <2>1
  <2> QED  BY <2>1, <2>2, <2>3
<1>9. ASSUME NEW s \in Sessions, StartProcess(s) PROVE Sharing'
  <2>1. call[s] = "found" /\ UNCHANGED <<handler, cached, found, raced>>
    BY <1>9 DEF StartProcess, config
  <2>2. \A u \in Callers : call'[u] = IF u = s THEN "started" ELSE call[u]
    BY <1>0, <1>9 DEF StartProcess, TypeOK
  <2> QED  BY <1>0, <2>1, <2>2
<1>10. ASSUME NEW d \in Directions, NEW r \in Requests, Forward(d, r)
       PROVE  UNCHANGED <<handler, cached, call, found, raced>>
  BY <1>10 DEF Forward, config
<1>11. OpenLogin \/ (\E c \in Containers : StartOrStop(c)) \/ UNCHANGED vars
         => UNCHANGED <<handler, cached, call, found, raced>>
  BY DEF OpenLogin, StartOrStop, vars, config, conn
<1> QED
  BY <1>1, <1>2, <1>3, <1>4, <1>5, <1>6, <1>7, <1>8, <1>9, <1>10, <1>11 DEF Next

-----------------------------------------------------------------------------
LEMMA InvInit == Init => ServerInv
BY TypeInit, ConfiguredInit, ConnectedInit, SharingInit DEF ServerInv

LEMMA InvNext == ServerInv /\ [Next]_vars => ServerInv'
<1> SUFFICES ASSUME ServerInv, [Next]_vars PROVE ServerInv'
  OBVIOUS
<1>1. /\ TypeOK' /\ Configured' /\ AllowedGiven' /\ ForwardsConfigured'
      /\ Connected' /\ Sharing'
  BY TypeNext, ConfiguredNext, AllowedNext, ForwardsNext, ConnectedNext, SharingNext
     DEF ServerInv
<1> QED  BY <1>1, AsConfiguredNext DEF ServerInv

(* Every state of a server satisfies the invariant. *)
THEOREM Invariance == Spec => []ServerInv
BY InvInit, InvNext, PTL DEF Spec

(* The variables of a server keep their types: what may be forwarded to has a port
   that exists, however wide the ports given on the command line are.                *)
THEOREM TypeCorrect == Spec => []TypeOK
<1>1. ServerInv => TypeOK
  BY DEF ServerInv
<1> QED  BY <1>1, Invariance, PTL

(* "This ensures that options like 'unsafe' work properly" (configuration.go:24):
   whatever configurations NewServer is given, a server that listens has their handler
   and asks for keys as they and the options say, and only nil options panic.         *)
THEOREM AsConfigured == Spec => []ServerAsConfigured
<1>1. ServerInv => ServerAsConfigured
  BY DEF ServerInv
<1> QED  BY <1>1, Invariance, PTL

(* However many sessions a connection has and whatever containers start and stop, all
   run in the container that authorized it (findContainer and AuthorizeKeys), and
   without authentication in one container unless two looked for it at once.          *)
THEOREM StaysInContainer == Spec => []SameContainer
<1>1. ServerInv => SameContainer
  <2> SUFFICES ASSUME ServerInv PROVE SameContainer
    OBVIOUS
  <2>1. Connected /\ Sharing
    BY DEF ServerInv
  <2>2. handler = "docker" =>
           \A s, t \in Sessions :
              call[s] = "started" /\ call[t] = "started" => found[s] = found[t] \/ raced
    BY <2>1 DEF Sharing, Callers
  <2> QED  BY <2>1, <2>2 DEF Connected, SameContainer
<1> QED  BY <1>1, Invariance, PTL

(* filterInternal lets through what the list of the direction names, for every number
   of ports and every list, up to the truncation of the ports on the command line.     *)
THEOREM ForwardsOnlyConfigured == Spec => []ForwardsConfigured
<1>1. ServerInv => ForwardsConfigured
  BY DEF ServerInv
<1> QED  BY <1>1, Invariance, PTL
=============================================================================
