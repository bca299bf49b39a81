------------------------------ MODULE HostKeyProofs ------------------------------
(***************************************************************************)
(* What the key files and their daemons keep, for any number of starts,    *)
(* any sequence of algorithms and keys of any length.  Sole is the         *)
(* inductive invariant of a file that no two starts were making at once.   *)
(***************************************************************************)
EXTENDS HostKey, TLAPS

(* Where a start is in the file it writes or reads. *)
Placed ==
    \A s \in Starts :
        /\ pc[s] \in {"stat", "create"} => pos[s] = 1 /\ seen[s] = <<>>
        /\ pc[s] = "write" => pos[s] \in 1..Size(Alg(s)) /\ seen[s] = <<>>
        /\ pc[s] = "read" => pos[s] = Len(seen[s]) + 1
        /\ pc[s] = "serving" => seen[s] = <<>>

(* What was there before is a file, and nobody else writes a seed that is none. *)
Foreign ==
    /\ \A a \in Algs : given[a] # "none" => exists[a]
    /\ \A a \in Algs : \A i \in 1..Size(a) : lines[a][i] = "badSeed" => given[a] = "badSeed"
    /\ \A s \in Starts : \A i \in 1..Len(seen[s]) :
          seen[s][i] = "badSeed" => given[Alg(s)] = "badSeed"

Reading(s, a) == pc[s] = "read" /\ Alg(s) = a

(* While a start makes a file that no other came upon, nobody reads it or has its key. *)
Maker(s, a) ==
    /\ \A t \in Starts \ {s} : ~Making(t, a)
    /\ \A t \in Starts : ~Reading(t, a) /\ key[t][a] = "none"
    /\ pc[s] = "create" => ~exists[a]
    /\ pc[s] = "write" => /\ exists[a]
                          /\ \A i \in 1..pos[s] - 1 : lines[a][i] = Whole(a, s)[i]

(* Who reads it has read what it says, who has a key has the one that it says, and it
   is whole as soon as it is made, unless its maker was torn from it.                 *)
Sole(a) ==
    /\ \A s \in Starts : Making(s, a) => Maker(s, a)
    /\ \A s \in Starts : Reading(s, a) =>
          exists[a] /\ \A i \in 1..Len(seen[s]) : seen[s][i] = lines[a][i]
    /\ \A s \in Starts : key[s][a] # "none" => exists[a] /\ lines[a] = Whole(a, key[s][a])
    /\ exists[a] /\ ~torn[a] /\ (\A s \in Starts : ~Making(s, a)) =>
          \E k \in Keys \cup ({given[a]} \cap {"unreadable", "badSeed"}) :
                  lines[a] = Whole(a, k)

HostKeyInv ==
    /\ TypeOK /\ Placed /\ Foreign /\ FailureExplained
    /\ \A a \in Algs : raced[a] \/ Sole(a)

-----------------------------------------------------------------------------
(* A key has a line of data before the one that ends it, so that it can be told whose
   it is, and it is known to be whole when its last line is there.                     *)
LEMMA Wholes ==
    ASSUME NEW a \in Algs
    PROVE  /\ DataLines[a] \in Nat \ {0} /\ Size(a) \in Nat /\ Size(a) >= 2
           /\ \A k : Whole(a, k)[1] = k /\ Whole(a, k)[Size(a)] = "end"
           /\ \A k \in Contents : Whole(a, k) \in [1..Size(a) -> Contents]
           /\ Empty(a) \in [1..Size(a) -> Contents]
           /\ \A k : DOMAIN Whole(a, k) = 1..Size(a) /\ Len(Whole(a, k)) = Size(a)
<1>1. DataLines[a] \in Nat \ {0}
  BY HostKeyAssumption
<1>2. Size(a) \in Nat /\ Size(a) >= 2
  BY <1>1 DEF Size
<1>3. \A k : /\ Whole(a, k)[1] = k /\ Whole(a, k)[Size(a)] = "end"
             /\ DOMAIN Whole(a, k) = 1..Size(a) /\ Len(Whole(a, k)) = Size(a)
  BY <1>2 DEF Whole
<1>4. Empty(a) \in [1..Size(a) -> Contents]
      /\ \A k \in Contents : Whole(a, k) \in [1..Size(a) -> Contents]
  BY DEF Empty, Whole, Contents
<1> QED  BY <1>1, <1>2, <1>3, <1>4

LEMMA AlgOf == ASSUME TypeOK, NEW s \in Starts PROVE Alg(s) \in Algs
BY HostKeyAssumption DEF TypeOK, Alg, Algs

(* A start goes on to the next line, or to reading what it wrote. *)
LEMMA Writes ==
    ASSUME TypeOK, NEW s \in Starts, Write(s)
    PROVE  /\ pc' = [pc EXCEPT ![s] = IF pos[s] = Size(Alg(s)) THEN "read" ELSE "write"]
           /\ pos' = [pos EXCEPT ![s] = IF pos[s] = Size(Alg(s)) THEN 1 ELSE pos[s] + 1]
<1>1. pc[s] = "write" /\ pc \in [Starts -> {"stat", "create", "write", "read", "serving",
                                             "rejected", "panicked", "ended"}]
  BY DEF Write, TypeOK
<1>2. CASE pos[s] = Size(Alg(s))
  BY <1>2 DEF Write, LastLine
<1>3. CASE pos[s] # Size(Alg(s))
  <2>1. pc' = pc /\ pos' = [pos EXCEPT ![s] = pos[s] + 1]
    BY <1>3 DEF Write, LastLine
  <2>2. pc = [pc EXCEPT ![s] = "write"]
    BY <1>1
  <2> QED  BY <1>3, <2>1, <2>2
<1> QED  BY <1>2, <1>3

LEMMA Names == Starts \cap {"operator", "unreadable", "badSeed", "end", "hole", "none"} = {}
BY HostKeyAssumption

-----------------------------------------------------------------------------
LEMMA InvInit == Init => HostKeyInv
<1> SUFFICES ASSUME Init PROVE HostKeyInv
  OBVIOUS
<1>1. TypeOK
  <2>1. \A a \in Algs : lines[a] \in [1..Size(a) -> Contents]
    <3> SUFFICES ASSUME NEW a \in Algs PROVE lines[a] \in [1..Size(a) -> Contents]
      OBVIOUS
    <3>1. given[a] # "none" => given[a] \in Contents
      BY DEF Init, Givens, Contents, Keys
    <3> QED  BY <3>1, Wholes DEF Init
  <2>2. \A s \in Starts : seen[s] \in Seq(Contents) /\ Len(seen[s]) <= Size(Alg(s))
    <3> SUFFICES ASSUME NEW s \in Starts
                 PROVE  seen[s] \in Seq(Contents) /\ Len(seen[s]) <= Size(Alg(s))
      OBVIOUS
    <3>1. seen[s] = <<>> /\ Alg(s) \in Algs
      BY HostKeyAssumption DEF Init, Alg, Algs
    <3> QED  BY <3>1, Wholes
  <2>3. at \in [Starts -> 1..Len(Algorithms)]
    BY HostKeyAssumption DEF Init
  <2> QED  BY <2>1, <2>2, <2>3 DEF Init, TypeOK
<1>2. Placed /\ FailureExplained
  BY DEF Init, Placed, FailureExplained
<1>3. \A a \in Algs : \A k : \A i \in 1..Size(a) :
         /\ Whole(a, k)[i] \in {k, "end"} /\ Empty(a)[i] = "hole"
  BY DEF Whole, Empty
<1>4. Foreign
  <2>1. \A a \in Algs : given[a] # "none" => exists[a]
    BY DEF Init
  <2>2. ASSUME NEW a \in Algs, NEW i \in 1..Size(a), lines[a][i] = "badSeed"
        PROVE  given[a] = "badSeed"
    <3>1. lines[a] = IF given[a] = "none" THEN Empty(a) ELSE Whole(a, given[a])
      BY DEF Init
    <3> QED  BY <1>3, <2>2, <3>1
  <2>3. \A s \in Starts : seen[s] = <<>>
    BY DEF Init
  <2> QED  BY <2>1, <2>2, <2>3 DEF Foreign
<1>5. ASSUME NEW a \in Algs PROVE Sole(a)
  BY DEF Init, Sole, Making, Reading, Givens, Keys
<1> QED  BY <1>1, <1>2, <1>4, <1>5 DEF HostKeyInv

-----------------------------------------------------------------------------
(* Stat, Create, Write, Read, Parsed and Rejected in the order of the code. *)
LEMMA TypeNext == TypeOK /\ Placed /\ [Next]_vars => TypeOK'
<1> SUFFICES ASSUME TypeOK, Placed, [Next]_vars PROVE TypeOK'
  OBVIOUS
<1> USE DEF TypeOK
<1>1. ASSUME NEW s \in Starts, Stat(s) PROVE TypeOK'
  BY <1>1, AlgOf DEF Stat, files, place, Alg
<1>2. ASSUME NEW s \in Starts, Create(s) PROVE TypeOK'
  BY <1>2, AlgOf, Wholes DEF Create, place, past, Alg
<1>3. ASSUME NEW s \in Starts, Write(s) PROVE TypeOK'
  <2>1. Alg(s) \in Algs /\ pos[s] \in 1..Size(Alg(s))
    BY <1>3, AlgOf DEF Write, Placed
  <2>2. \A a \in Algs : lines'[a] \in [1..Size(a) -> Contents]
    BY <1>3, <2>1 DEF Write, Contents, Keys, Generated
  <2>3. /\ pos' \in [Starts -> Nat \ {0}]
        /\ pc' \in [Starts -> {"stat", "create", "write", "read", "serving",
                               "rejected", "panicked", "ended"}]
    <3>1. /\ pc' = [pc EXCEPT ![s] = IF pos[s] = Size(Alg(s)) THEN "read" ELSE "write"]
          /\ pos' = [pos EXCEPT ![s] = IF pos[s] = Size(Alg(s)) THEN 1 ELSE pos[s] + 1]
      BY <1>3, Writes
    <3> QED  BY <3>1
  <2> QED  BY <1>3, <2>2, <2>3 DEF Write, past, Alg
<1>4. ASSUME NEW s \in Starts, Read(s) PROVE TypeOK'
  <2>1. Alg(s) \in Algs /\ pos[s] = Len(seen[s]) + 1 /\ pos[s] <= Size(Alg(s))
    BY <1>4, AlgOf DEF Read, More, Placed
  <2>2. lines[Alg(s)][pos[s]] \in Contents
    BY <2>1, Wholes
  <2>3. \A t \in Starts : seen'[t] \in Seq(Contents) /\ Len(seen'[t]) <= Size(Alg(t))
    BY <1>4, <2>1, <2>2, Wholes DEF Read
  <2> QED  BY <1>4, <2>3 DEF Read, files, past, Alg
<1>5. ASSUME NEW s \in Starts, Parsed(s) PROVE TypeOK'
  <2>1. key' \in [Starts -> [Algs -> Keys \cup {"none"}]]
    BY <1>5, AlgOf DEF Parsed, Keys
  <2>2. at' \in [Starts -> 1..Len(Algorithms)]
    BY <1>5, HostKeyAssumption DEF Parsed, LastAlgorithm
  <2>3. /\ pos' = [pos EXCEPT ![s] = 1] /\ DOMAIN seen' = Starts
        /\ \E p \in {"serving", "stat"} : pc' = [pc EXCEPT ![s] = p]
    BY <1>5 DEF Parsed
  <2>4. ASSUME NEW t \in Starts
        PROVE  seen'[t] \in Seq(Contents) /\ Len(seen'[t]) <= Size(Alg(t)')
    <3>1. CASE t = s
      <4>1. seen'[t] = <<>> /\ Alg(t)' \in Algs
        BY <1>5, <2>2, <3>1, HostKeyAssumption DEF Parsed, Alg, Algs
      <4> QED  BY <4>1, Wholes
    <3>2. CASE t # s
      BY <1>5, <3>2 DEF Parsed, Alg
    <3> QED  BY <3>1, <3>2
  <2>5. UNCHANGED <<files, past>>
    BY <1>5 DEF Parsed
  <2>6. /\ pos' \in [Starts -> Nat \ {0}]
        /\ pc' \in [Starts -> {"stat", "create", "write", "read", "serving",
                               "rejected", "panicked", "ended"}]
    BY <2>3
  <2> QED  BY <2>1, <2>2, <2>3, <2>4, <2>5, <2>6 DEF files, past
<1>6. ASSUME NEW s \in Starts, Rejected(s) PROVE TypeOK'
  BY <1>6 DEF Rejected, files, place, past, Alg
<1>7. ASSUME NEW s \in Starts, EndStart(s) PROVE TypeOK'
  BY <1>7, AlgOf DEF EndStart, files, place, Alg
<1>8. CASE UNCHANGED vars
  BY <1>8 DEF vars, files, place, past, Alg
<1> QED
  BY <1>1, <1>2, <1>3, <1>4, <1>5, <1>6, <1>7, <1>8 DEF Next, UseOrMakeHostKeys

LEMMA PlacedNext == TypeOK /\ Placed /\ [Next]_vars => Placed'
<1> SUFFICES ASSUME TypeOK, Placed, [Next]_vars PROVE Placed'
  OBVIOUS
<1> USE DEF TypeOK, Placed
<1>1. ASSUME NEW s \in Starts, Stat(s) PROVE Placed'
  BY <1>1 DEF Stat, place, Alg
<1>2. ASSUME NEW s \in Starts, Create(s) PROVE Placed'
  BY <1>2, AlgOf, Wholes DEF Create, place, Alg
<1>3. ASSUME NEW s \in Starts, Write(s) PROVE Placed'
  <2>1. UNCHANGED <<at, seen>> /\ pc[s] = "write"
    BY <1>3 DEF Write
  <2>2. Alg(s) \in Algs /\ Size(Alg(s)) \in Nat /\ \A t \in Starts : Alg(t)' = Alg(t)
    BY <2>1, AlgOf, Wholes DEF Alg
  <2>3. /\ pc' = [pc EXCEPT ![s] = IF pos[s] = Size(Alg(s)) THEN "read" ELSE "write"]
        /\ pos' = [pos EXCEPT ![s] = IF pos[s] = Size(Alg(s)) THEN 1 ELSE pos[s] + 1]
    BY <1>3, Writes
  <2> QED  BY <2>1, <2>2, <2>3
<1>4. ASSUME NEW s \in Starts, Read(s) PROVE Placed'
  <2>1. seen'[s] = Append(seen[s], lines[Alg(s)][pos[s]]) /\ pos'[s] = pos[s] + 1
        /\ pc[s] = "read"
    BY <1>4 DEF Read
  <2>2. Len(seen'[s]) = Len(seen[s]) + 1
    BY <2>1
  <2> QED  BY <1>4, <2>1, <2>2 DEF Read, Alg
<1>5. ASSUME NEW s \in Starts, Parsed(s) PROVE Placed'
  BY <1>5 DEF Parsed, Alg
<1>6. ASSUME NEW s \in Starts, Rejected(s) PROVE Placed'
  BY <1>6 DEF Rejected, place, Alg
<1>7. ASSUME NEW s \in Starts, EndStart(s) PROVE Placed'
  BY <1>7 DEF EndStart, place, Alg
<1>8. CASE UNCHANGED vars
  BY <1>8 DEF vars, place, Alg
<1> QED
  BY <1>1, <1>2, <1>3, <1>4, <1>5, <1>6, <1>7, <1>8 DEF Next, UseOrMakeHostKeys

LEMMA ForeignNext == TypeOK /\ Placed /\ Foreign /\ [Next]_vars => Foreign'
<1> SUFFICES ASSUME TypeOK, Placed, Foreign, [Next]_vars PROVE Foreign'
  OBVIOUS
<1>1. CASE UNCHANGED <<given, exists, lines, seen, at>>
  BY <1>1 DEF Foreign, Alg
<1>2. ASSUME NEW s \in Starts, Create(s) PROVE Foreign'
  <2>1. \A a \in Algs : exists[a] => exists'[a]
    BY <1>2 DEF Create, TypeOK
  <2>2. \A a \in Algs : \A i \in 1..Size(a) : lines'[a][i] \in {lines[a][i], "hole"}
    BY <1>2 DEF Create, TypeOK, Empty
  <2> QED  BY <1>2, <2>1, <2>2 DEF Foreign, Create, place, past, Alg
<1>3. ASSUME NEW s \in Starts, Write(s) PROVE Foreign'
  <2>1. \A a \in Algs : \A i \in 1..Size(a) : lines'[a][i] \in {lines[a][i], "end", s}
    BY <1>3 DEF Write, TypeOK, Generated
  <2> QED  BY <1>3, <2>1, Names DEF Foreign, Write, past, Alg
<1>4. ASSUME NEW s \in Starts, Read(s) PROVE Foreign'
  <2>1. Alg(s) \in Algs /\ pos[s] \in 1..Size(Alg(s))
    BY <1>4, AlgOf, Wholes DEF Read, More, TypeOK
  <2>2. ASSUME NEW t \in Starts, NEW i \in 1..Len(seen'[t]), seen'[t][i] = "badSeed"
        PROVE  given[Alg(t)] = "badSeed"
    <3>1. CASE t # s
      BY <1>4, <2>2, <3>1 DEF Read, TypeOK, Foreign
    <3>2. CASE t = s
      <4>1. seen'[s] = Append(seen[s], lines[Alg(s)][pos[s]]) /\ seen[s] \in Seq(Contents)
        BY <1>4 DEF Read, TypeOK
      <4>2. \/ i \in 1..Len(seen[s]) /\ seen[s][i] = "badSeed"
            \/ lines[Alg(s)][pos[s]] = "badSeed"
        BY <2>2, <3>2, <4>1
      <4> QED  BY <2>1, <3>2, <4>2 DEF Foreign
    <3> QED  BY <3>1, <3>2
  <2> QED  BY <1>4, <2>2 DEF Foreign, Read, files, past, Alg
<1>5. ASSUME NEW s \in Starts, Parsed(s) PROVE Foreign'
  <2>1. \A t \in Starts : seen'[t] = <<>> \/ (seen'[t] = seen[t] /\ Alg(t)' = Alg(t))
    BY <1>5 DEF Parsed, TypeOK, Alg
  <2>2. UNCHANGED <<given, exists, lines>>
    BY <1>5 DEF Parsed, files, past
  <2> QED  BY <2>1, <2>2 DEF Foreign
<1> QED
  BY <1>1, <1>2, <1>3, <1>4, <1>5
     DEF Next, UseOrMakeHostKeys, Stat, Rejected, EndStart, files, place, past, vars
-----------------------------------------------------------------------------
(* What a step must leave alone for a file, and for those who make or read it. *)
LEMMA Elsewhere ==
    ASSUME NEW a \in Algs, Sole(a),
           exists'[a] = exists[a], lines'[a] = lines[a], given' = given,
           torn[a] => torn'[a],
           \A t \in Starts :
              /\ key'[t][a] = key[t][a]
              /\ Making(t, a)' <=> Making(t, a)
              /\ Making(t, a) => pc'[t] = pc[t] /\ pos'[t] = pos[t]
              /\ Reading(t, a)' => Reading(t, a) /\ seen'[t] = seen[t]
    PROVE  Sole(a)'
<1>1. ASSUME NEW s \in Starts, Making(s, a)' PROVE Maker(s, a)'
  <2>1. Maker(s, a) /\ pc'[s] = pc[s] /\ pos'[s] = pos[s]
    BY <1>1 DEF Sole
  <2> QED  BY <2>1 DEF Maker
<1>2. ASSUME NEW s \in Starts, Reading(s, a)'
      PROVE  exists'[a] /\ \A i \in 1..Len(seen'[s]) : seen'[s][i] = lines'[a][i]
  BY <1>2 DEF Sole
<1>3. ASSUME NEW s \in Starts, key'[s][a] # "none"
      PROVE  exists'[a] /\ lines'[a] = Whole(a, key'[s][a])
  BY <1>3 DEF Sole
<1>4. exists'[a] /\ ~torn'[a] /\ (\A s \in Starts : ~Making(s, a)') =>
        \E k \in Keys \cup ({given'[a]} \cap {"unreadable", "badSeed"}) :
                 lines'[a] = Whole(a, k)
  BY DEF Sole
<1> QED  BY <1>1, <1>2, <1>3, <1>4 DEF Sole

(* Who has read all the lines of a file that a key has has read the file. *)
LEMMA ReadWhole ==
    ASSUME TypeOK, NEW a \in Algs, NEW s \in Starts, NEW k, seen[s] = Whole(a, k),
           \A i \in 1..Len(seen[s]) : seen[s][i] = lines[a][i]
    PROVE  lines[a] = Whole(a, k)
<1>1. /\ lines[a] \in [1..Size(a) -> Contents] /\ DOMAIN Whole(a, k) = 1..Size(a)
      /\ Len(seen[s]) = Size(a)
  BY Wholes DEF TypeOK
<1>2. Whole(a, k) = [i \in 1..Size(a) |-> Whole(a, k)[i]]
  BY DEF Whole
<1> QED  BY <1>1, <1>2

LEMMA SoleNext ==
    ASSUME TypeOK, Placed, Foreign, [Next]_vars, NEW a \in Algs, raced[a] \/ Sole(a)
    PROVE  raced'[a] \/ Sole(a)'
<1>0. CASE raced[a]
  BY <1>0 DEF Next, UseOrMakeHostKeys, Stat, Create, Write, Read, Parsed, Rejected, EndStart,
              past, vars, TypeOK
<1>1. ASSUME Sole(a), NEW s \in Starts, Stat(s) PROVE raced'[a] \/ Sole(a)'
  <2>1. /\ pc[s] = "stat" /\ UNCHANGED <<files, place, key, given, torn>>
        /\ pc' = [pc EXCEPT ![s] = IF Missing(Alg(s)) THEN "create" ELSE "read"]
        /\ \A t \in Starts : Alg(t)' = Alg(t)
    BY <1>1 DEF Stat, place, Alg
  <2>2. CASE a # Alg(s)
    BY <1>1, <2>1, <2>2, Elsewhere DEF Making, Reading, TypeOK, files, place
  <2>3. CASE a = Alg(s) /\ ~raced'[a]
    <3>1. \A t \in Starts : ~Making(t, a)
      BY <1>1, <2>1, <2>3 DEF Stat, Making, TypeOK
    <3>2. CASE exists[a]
      <4>1. pc' = [pc EXCEPT ![s] = "read"] /\ seen[s] = <<>>
        BY <2>1, <2>3, <3>2 DEF Missing, Placed
      <4>2. \A t \in Starts : ~Making(t, a)'
        BY <2>1, <3>1, <4>1 DEF Making, TypeOK
      <4>3. \A t \in Starts : Reading(t, a)' => Reading(t, a) \/ t = s
        BY <2>1, <4>1 DEF Reading, TypeOK
      <4>4. UNCHANGED <<exists, lines, seen, key, given, torn>>
        BY <2>1 DEF files, place
      <4> QED  BY <1>1, <3>1, <3>2, <4>1, <4>2, <4>3, <4>4 DEF Sole
    <3>3. CASE ~exists[a]
      <4>1. pc' = [pc EXCEPT ![s] = "create"]
        BY <2>1, <2>3, <3>3 DEF Missing
      <4>2. \A t \in Starts : Making(t, a)' <=> t = s
        BY <2>1, <2>3, <3>1, <4>1 DEF Making, TypeOK
      <4>3. \A t \in Starts : ~Reading(t, a)' /\ key[t][a] = "none"
        BY <1>1, <2>1, <3>3, <4>1 DEF Reading, TypeOK, Sole
      <4>4. UNCHANGED <<exists, lines, seen, key, given, torn>>
        BY <2>1 DEF files, place
      <4>5. Maker(s, a)'
        BY <3>3, <4>1, <4>2, <4>3, <4>4 DEF Maker, TypeOK
      <4> QED  BY <3>3, <4>2, <4>3, <4>4, <4>5 DEF Sole
    <3> QED  BY <3>2, <3>3
  <2> QED  BY <2>2, <2>3
<1>2. ASSUME Sole(a), NEW s \in Starts, Create(s) PROVE raced'[a] \/ Sole(a)'
  <2>1. /\ pc[s] = "create" /\ pc' = [pc EXCEPT ![s] = "write"]
        /\ UNCHANGED <<place, key, past>>
        /\ exists' = [exists EXCEPT ![Alg(s)] = TRUE]
        /\ lines' = [lines EXCEPT ![Alg(s)] = Empty(Alg(s))]
        /\ \A t \in Starts : Alg(t)' = Alg(t)
    BY <1>2 DEF Create, place, Alg
  <2>2. CASE a # Alg(s)
    BY <1>2, <2>1, <2>2, Elsewhere DEF Making, Reading, TypeOK, place, past
  <2>3. CASE a = Alg(s)
    <3>1. Maker(s, a) /\ pos[s] = 1
      BY <1>2, <2>1, <2>3 DEF Sole, Making, Placed
    <3>2. /\ exists'[a] /\ pc'[s] = "write" /\ pos'[s] = 1
          /\ \A t \in Starts : key'[t][a] = "none" /\ ~Reading(t, a)'
          /\ \A t \in Starts : Making(t, a)' <=> t = s
      BY <2>1, <2>3, <3>1 DEF Maker, Making, Reading, TypeOK, place
    <3>3. Maker(s, a)'
      BY <3>2 DEF Maker
    <3> QED  BY <3>2, <3>3 DEF Sole
  <2> QED  BY <2>2, <2>3
<1>3. ASSUME Sole(a), NEW s \in Starts, Write(s) PROVE raced'[a] \/ Sole(a)'
  <2>1. /\ pc[s] = "write" /\ UNCHANGED <<exists, at, seen, key, past>>
        /\ lines' = [lines EXCEPT ![Alg(s)][pos[s]] =
                        IF pos[s] = Size(Alg(s)) THEN "end" ELSE s]
        /\ \A t \in Starts : Alg(t)' = Alg(t)
    BY <1>3 DEF Write, Alg, Generated
  <2>2. /\ pc' = [pc EXCEPT ![s] = IF pos[s] = Size(Alg(s)) THEN "read" ELSE "write"]
        /\ pos' = [pos EXCEPT ![s] = IF pos[s] = Size(Alg(s)) THEN 1 ELSE pos[s] + 1]
    BY <1>3, Writes
  <2>3. CASE a # Alg(s)
    BY <1>3, <2>1, <2>2, <2>3, Elsewhere DEF Making, Reading, TypeOK, past
  <2>4. CASE a = Alg(s)
    <3>1. Maker(s, a) /\ pos[s] \in 1..Size(a) /\ Size(a) \in Nat /\ seen[s] = <<>>
      BY <1>3, <2>1, <2>4, Wholes DEF Sole, Making, Placed
    <3>2. \A i \in 1..pos[s] : lines'[a][i] = Whole(a, s)[i]
      <4>1. lines'[a] = [lines[a] EXCEPT ![pos[s]] = IF pos[s] = Size(a) THEN "end" ELSE s]
        BY <2>1, <2>4 DEF TypeOK
      <4>2. \A i \in 1..pos[s] - 1 : lines[a][i] = Whole(a, s)[i]
        BY <2>1, <3>1 DEF Maker
      <4>3. lines'[a][pos[s]] = Whole(a, s)[pos[s]]
        BY <3>1, <4>1 DEF TypeOK, Whole
      <4>4. \A i \in 1..pos[s] - 1 : lines'[a][i] = lines[a][i]
        BY <3>1, <4>1 DEF TypeOK
      <4> QED  BY <3>1, <4>2, <4>3, <4>4
    <3>3. /\ exists'[a] /\ \A t \in Starts : key'[t][a] = "none"
          /\ \A t \in Starts \ {s} : ~Making(t, a)' /\ ~Reading(t, a)'
      BY <2>1, <2>2, <2>4, <3>1 DEF Maker, Making, Reading, TypeOK
    <3>4. CASE pos[s] # Size(a)
      <4>1. pc'[s] = "write" /\ pos'[s] = pos[s] + 1
        BY <2>2, <2>4, <3>4 DEF TypeOK
      <4>2. Making(s, a)' /\ ~Reading(s, a)'
        BY <2>1, <2>4, <4>1 DEF Making, Reading
      <4>3. Maker(s, a)'
        BY <3>1, <3>2, <3>3, <4>1, <4>2 DEF Maker
      <4> QED  BY <3>3, <4>2, <4>3 DEF Sole
    <3>5. CASE pos[s] = Size(a)
      <4>1. pc'[s] = "read" /\ seen'[s] = <<>>
        BY <2>1, <2>2, <2>4, <3>1, <3>5 DEF TypeOK
      <4>2. \A t \in Starts : ~Making(t, a)'
        BY <3>3, <4>1 DEF Making
      <4>3. lines'[a] = Whole(a, s)
        <5>1. lines'[a] = [i \in 1..Size(a) |-> lines'[a][i]]
          BY <2>1, <2>4 DEF TypeOK
        <5> QED  BY <3>2, <3>5, <5>1 DEF Whole
      <4> QED  BY <3>3, <4>1, <4>2, <4>3 DEF Sole, Keys
    <3> QED  BY <3>4, <3>5
  <2> QED  BY <2>3, <2>4
<1>4. ASSUME Sole(a), NEW s \in Starts, Read(s) PROVE raced'[a] \/ Sole(a)'
  <2>1. /\ pc[s] = "read" /\ UNCHANGED <<files, pc, at, key, past>>
        /\ seen' = [seen EXCEPT ![s] = Append(@, lines[Alg(s)][pos[s]])]
        /\ pos' = [pos EXCEPT ![s] = @ + 1]
        /\ \A t \in Starts : Alg(t)' = Alg(t)
    BY <1>4 DEF Read, Alg
  <2>2. CASE a # Alg(s)
    BY <1>4, <2>1, <2>2, Elsewhere DEF Making, Reading, TypeOK, files, past
  <2>3. CASE a = Alg(s)
    <3>1. exists[a] /\ \A i \in 1..Len(seen[s]) : seen[s][i] = lines[a][i]
      BY <1>4, <2>1, <2>3 DEF Sole, Reading
    <3>2. \A t \in Starts : ~Making(t, a)
      BY <1>4, <2>1, <2>3 DEF Sole, Maker, Reading
    <3>3. \A i \in 1..Len(seen'[s]) : seen'[s][i] = lines[a][i]
      <4>1. seen[s] \in Seq(Contents) /\ pos[s] = Len(seen[s]) + 1
            /\ seen'[s] = Append(seen[s], lines[a][pos[s]])
        BY <2>1, <2>3 DEF TypeOK, Placed
      <4> QED  BY <3>1, <4>1
    <3>4. \A t \in Starts : ~Making(t, a)' /\ (Reading(t, a)' <=> Reading(t, a))
      BY <2>1, <3>2 DEF Making, Reading
    <3>5. \A t \in Starts \ {s} : seen'[t] = seen[t]
      BY <2>1 DEF TypeOK
    <3> QED  BY <1>4, <2>1, <3>1, <3>2, <3>3, <3>4, <3>5 DEF Sole, files, past
  <2> QED  BY <2>2, <2>3
<1>5. ASSUME Sole(a), NEW s \in Starts, Parsed(s) PROVE raced'[a] \/ Sole(a)'
  <2>1. /\ pc[s] = "read" /\ UNCHANGED <<files, past>>
        /\ \E p \in {"serving", "stat"} : pc' = [pc EXCEPT ![s] = p]
        /\ \A t \in Starts \ {s} : Alg(t)' = Alg(t) /\ seen'[t] = seen[t] /\ pos'[t] = pos[t]
    BY <1>5 DEF Parsed, Alg, TypeOK
  <2>2. PICK k \in Starts \cup {"operator"} :
           Usable(s, k) /\ key' = [key EXCEPT ![s][Alg(s)] = k]
    BY <1>5 DEF Parsed
  <2>3. \A t \in Starts :
           /\ Making(t, a)' <=> Making(t, a)
           /\ Making(t, a) => pc'[t] = pc[t] /\ pos'[t] = pos[t]
           /\ Reading(t, a)' => Reading(t, a) /\ seen'[t] = seen[t]
    BY <2>1 DEF Making, Reading, TypeOK
  <2>4. CASE a # Alg(s)
    <3>1. \A t \in Starts : key'[t][a] = key[t][a]
      BY <2>2, <2>4, AlgOf DEF TypeOK
    <3>2. UNCHANGED <<exists, lines, given, torn>>
      BY <2>1 DEF files, past
    <3> QED  BY <1>5, <2>3, <3>1, <3>2, Elsewhere
  <2>5. CASE a = Alg(s)
    <3>1. exists[a] /\ \A i \in 1..Len(seen[s]) : seen[s][i] = lines[a][i]
      BY <1>5, <2>1, <2>5 DEF Sole, Reading
    <3>2. lines[a] = Whole(a, k)
      BY <2>2, <2>5, <3>1, ReadWhole DEF Usable
    <3>3. \A t \in Starts : ~Making(t, a)
      BY <1>5, <2>1, <2>5 DEF Sole, Maker, Reading
    <3>4. \A t \in Starts : key'[t][a] = IF t = s THEN k ELSE key[t][a]
      BY <2>2, <2>5 DEF TypeOK
    <3>5. UNCHANGED <<exists, lines, given, torn>>
      BY <2>1 DEF files, past
    <3>6. \A t \in Starts : ~Making(t, a)'
      BY <2>3, <3>3
    <3>7. \A t \in Starts : key'[t][a] # "none" => lines[a] = Whole(a, key'[t][a])
      BY <1>5, <3>2, <3>4 DEF Sole
    <3>8. \A t \in Starts : Reading(t, a)' =>
             \A i \in 1..Len(seen'[t]) : seen'[t][i] = lines[a][i]
      BY <1>5, <2>3 DEF Sole
    <3> QED  BY <1>5, <3>1, <3>3, <3>5, <3>6, <3>7, <3>8 DEF Sole
  <2> QED  BY <2>4, <2>5
<1>6. ASSUME Sole(a), NEW s \in Starts, Rejected(s) PROVE raced'[a] \/ Sole(a)'
  <2>1. /\ pc[s] = "read" /\ UNCHANGED <<files, place, key, past>>
        /\ \E p \in {"panicked", "rejected"} : pc' = [pc EXCEPT ![s] = p]
        /\ \A t \in Starts : Alg(t)' = Alg(t)
    BY <1>6 DEF Rejected, place, Alg
  <2> QED  BY <1>6, <2>1, Elsewhere DEF Making, Reading, TypeOK, files, place, past
<1>7. ASSUME Sole(a), NEW s \in Starts, EndStart(s) PROVE raced'[a] \/ Sole(a)'
  <2>1. /\ UNCHANGED <<files, place, key, given, raced>> /\ pc' = [pc EXCEPT ![s] = "ended"]
        /\ torn' = [torn EXCEPT ![Alg(s)] = @ \/ pc[s] = "write"]
        /\ \A t \in Starts : Alg(t)' = Alg(t)
    BY <1>7 DEF EndStart, place, Alg
  <2>2. CASE ~Making(s, a)
    BY <1>7, <2>1, <2>2, Elsewhere DEF Making, Reading, TypeOK, files, place
  <2>3. CASE Making(s, a)
    <3>1. Maker(s, a)
      BY <1>7, <2>3 DEF Sole
    <3>2. \A t \in Starts : /\ ~Making(t, a)' /\ ~Reading(t, a)' /\ key'[t][a] = "none"
      BY <2>1, <3>1 DEF Maker, Making, Reading, TypeOK
    <3>3. torn'[a] \/ ~exists'[a]
      BY <2>1, <2>3, <3>1 DEF Maker, Making, TypeOK, files
    <3> QED  BY <3>2, <3>3 DEF Sole
  <2> QED  BY <2>2, <2>3
<1>8. CASE Sole(a) /\ UNCHANGED vars
  BY <1>8, Elsewhere DEF vars, files, place, past, Making, Reading, Alg
<1> QED
  BY <1>0, <1>1, <1>2, <1>3, <1>4, <1>5, <1>6, <1>7, <1>8 DEF Next, UseOrMakeHostKeys

(* A start stops in the middle of a file only where the file does. *)
LEMMA ExplainedNext ==
    ASSUME TypeOK, Placed, Foreign, FailureExplained, [Next]_vars,
           \A a \in Algs : raced[a] \/ Sole(a)
    PROVE  FailureExplained'
<1>1. CASE /\ given' = given /\ \A a \in Algs : (torn[a] => torn'[a]) /\ (raced[a] => raced'[a])
           /\ \A s \in Starts : pc'[s] \in {"rejected", "panicked"} =>
                 pc'[s] = pc[s] /\ Alg(s)' = Alg(s)
  BY <1>1, AlgOf DEF FailureExplained
<1>2. ASSUME NEW s \in Starts, Rejected(s) PROVE FailureExplained'
  <2> DEFINE a == Alg(s)
  <2>1. /\ pc[s] = "read" /\ ~More(s) /\ UNCHANGED <<files, place, key, past>>
        /\ \A k \in Keys : ~Usable(s, k)
        /\ pc' = [pc EXCEPT ![s] = IF seen[s] = Whole(a, "badSeed")
                                  THEN "panicked" ELSE "rejected"]
        /\ \A t \in Starts : Alg(t)' = Alg(t)
    BY <1>2 DEF Rejected, place, Alg, Keys
  <2>2. a \in Algs /\ Size(a) \in Nat /\ Size(a) >= 2
    BY AlgOf, Wholes
  <2>3. seen[s] = Whole(a, "badSeed") => given[a] = "badSeed"
    <3>1. ASSUME seen[s] = Whole(a, "badSeed") PROVE given[a] = "badSeed"
      <4>1. Len(seen[s]) = Size(a) /\ seen[s][1] = "badSeed"
        BY <2>2, <3>1, Wholes
      <4> QED  BY <2>2, <4>1 DEF Foreign
    <3> QED  BY <3>1
  <2>4. ASSUME ~torn[a], ~raced[a], given[a] # "unreadable"
        PROVE  seen[s] = Whole(a, "badSeed")
    <3>1. /\ exists[a] /\ \A i \in 1..Len(seen[s]) : seen[s][i] = lines[a][i]
          /\ \A t \in Starts : ~Making(t, a)
      BY <2>1, <2>2, <2>4 DEF Sole, Maker, Reading
    <3>2. PICK k \in Keys \cup ({given[a]} \cap {"unreadable", "badSeed"}) :
                  lines[a] = Whole(a, k)
      BY <2>2, <2>4, <3>1 DEF Sole
    <3>3. pos[s] = Len(seen[s]) + 1 /\ seen[s] \in Seq(Contents) /\ Len(seen[s]) <= Size(a)
      BY <2>1 DEF Placed, TypeOK
    <3>4. Len(seen[s]) = Size(a)
      <4>1. lines[a][Size(a)] = "end"
        BY <2>2, <3>2, Wholes
      <4>2. pos[s] <= Size(a) => Written(a, pos[s])
        BY <2>2, <3>3, <4>1 DEF Written
      <4> QED  BY <2>1, <2>2, <3>3, <4>2 DEF More
    <3>5. seen[s] = Whole(a, k)
      <4>1. DOMAIN seen[s] = 1..Size(a) /\ seen[s] = [i \in 1..Size(a) |-> seen[s][i]]
        BY <3>3, <3>4
      <4>2. Whole(a, k) = [i \in 1..Size(a) |-> Whole(a, k)[i]]
        BY DEF Whole
      <4> QED  BY <3>1, <3>2, <3>4, <4>1, <4>2
    <3>6. k \notin Keys
      BY <2>1, <3>5 DEF Usable, Keys
    <3> QED  BY <2>4, <3>2, <3>5, <3>6
  <2>5. \A t \in Starts \ {s} : pc'[t] = pc[t]
    BY <2>1
  <2>6. /\ pc'[s] = "panicked" => given[a] = "badSeed"
        /\ pc'[s] = "rejected" => torn[a] \/ raced[a] \/ given[a] = "unreadable"
    BY <2>1, <2>3, <2>4 DEF TypeOK
  <2> QED  BY <2>1, <2>5, <2>6 DEF FailureExplained, past
<1>3. ASSUME NEW s \in Starts, Write(s) PROVE FailureExplained'
  <2>1. UNCHANGED <<at, past>>
    BY <1>3 DEF Write
  <2>2. \A t \in Starts : pc'[t] \in {"read", "write"} \/ pc'[t] = pc[t]
    BY <1>3, Writes DEF TypeOK
  <2> QED  BY <1>1, <2>1, <2>2 DEF past, Alg
<1>4. ASSUME NEW s \in Starts, Parsed(s) PROVE FailureExplained'
  <2>1. \A t \in Starts : pc'[t] \in {"serving", "stat"} \/ (pc'[t] = pc[t] /\ at'[t] = at[t])
    BY <1>4 DEF Parsed, TypeOK
  <2>2. UNCHANGED past
    BY <1>4 DEF Parsed
  <2> QED  BY <1>1, <2>1, <2>2 DEF past, Alg
<1>5. ASSUME NEW s \in Starts, Stat(s) \/ EndStart(s) PROVE FailureExplained'
  <2>1. given' = given /\ \A a \in Algs : (torn[a] => torn'[a]) /\ (raced[a] => raced'[a])
    BY <1>5 DEF Stat, EndStart, TypeOK
  <2>2. /\ at' = at /\ \A t \in Starts : pc'[t] \in {"create", "read", "ended", pc[t]}
    BY <1>5 DEF Stat, EndStart, TypeOK, place
  <2> QED  BY <1>1, <2>1, <2>2 DEF Alg
<1>6. ASSUME NEW s \in Starts, Create(s) \/ Read(s) PROVE FailureExplained'
  <2>1. UNCHANGED <<at, past>> /\ \A t \in Starts : pc'[t] \in {"write", pc[t]}
    BY <1>6 DEF Create, Read, TypeOK, place
  <2> QED  BY <1>1, <2>1 DEF past, Alg
<1>7. CASE UNCHANGED vars
  BY <1>1, <1>7 DEF vars, place, past, Alg
<1> QED
  BY <1>2, <1>3, <1>4, <1>5, <1>6, <1>7 DEF Next, UseOrMakeHostKeys

LEMMA InvNext == HostKeyInv /\ [Next]_vars => HostKeyInv'
<1> SUFFICES ASSUME HostKeyInv, [Next]_vars PROVE HostKeyInv'
  OBVIOUS
<1>1. /\ TypeOK /\ Placed /\ Foreign /\ FailureExplained
      /\ \A a \in Algs : raced[a] \/ Sole(a)
  BY DEF HostKeyInv
<1>2. TypeOK' /\ Placed' /\ Foreign' /\ FailureExplained'
  BY <1>1, TypeNext, PlacedNext, ForeignNext, ExplainedNext
<1>3. \A a \in Algs : raced'[a] \/ Sole(a)'
  BY <1>1, SoleNext
<1> QED  BY <1>2, <1>3 DEF HostKeyInv

(* Every state of the files and the starts satisfies the invariant. *)
THEOREM Invariance == Spec => []HostKeyInv
BY InvInit, InvNext, PTL DEF Spec

(* The files, and what the starts read of them, keep their types. *)
THEOREM TypeCorrect == Spec => []TypeOK
<1>1. HostKeyInv => TypeOK
  BY DEF HostKeyInv
<1> QED  BY <1>1, Invariance, PTL

(* ReadOrMakeHostKey gives all servers that ever start the same key, crashes or not,
   unless two made it at once.                                                         *)
THEOREM Agreement == Spec => []Agree
<1>1. HostKeyInv => Agree
  <2> SUFFICES ASSUME HostKeyInv, NEW a \in Algs, ~raced[a],
                      NEW s \in Starts, NEW t \in Starts,
                      key[s][a] # "none", key[t][a] # "none"
               PROVE  key[s][a] = key[t][a]
    BY DEF Agree
  <2>1. lines[a] = Whole(a, key[s][a]) /\ lines[a] = Whole(a, key[t][a])
    BY DEF HostKeyInv, Sole
  <2>2. Whole(a, key[s][a])[1] = key[s][a] /\ Whole(a, key[t][a])[1] = key[t][a]
    BY Wholes
  <2> QED  BY <2>1, <2>2
<1> QED  BY <1>1, Invariance, PTL

(* A start that loadHostKey fails, or panics, met a file that a crash or another start
   left so, or that was there before.                                                  *)
THEOREM ExplainedFailures == Spec => []FailureExplained
<1>1. HostKeyInv => FailureExplained
  BY DEF HostKeyInv
<1> QED  BY <1>1, Invariance, PTL
=============================================================================
