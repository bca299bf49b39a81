-------------------------------- MODULE HostKey --------------------------------
(***************************************************************************)
(* feature/hostkey.go: every start of a daemon reads, or makes and then    *)
(* reads, one key file for each algorithm.  Files outlive the daemons that *)
(* make them: a crash or a failed write leaves one unfinished, and nothing *)
(* keeps two starts from making the same file.  A file is a few lines of   *)
(* key data and one that ends it; a key is named by the start that made    *)
(* it.  The file system and the packages pem, rsa and ed25519 are external.*)
(***************************************************************************)
EXTENDS Naturals, Sequences

CONSTANTS
    Starts,       \* the starts of daemons with the same privateKeyPath
    Algorithms,   \* the sequence of their algorithms
    DataLines     \* DataLines[a]: the lines of data in a key of algorithm a

Algs == {Algorithms[i] : i \in 1..Len(Algorithms)}

ASSUME HostKeyAssumption ==
    /\ Algorithms \in Seq({"rsa", "ed25519"}) /\ Algorithms # <<>>
    /\ DataLines \in [Algs -> Nat \ {0}]
    /\ Starts \cap {"operator", "unreadable", "badSeed", "end", "hole", "none"} = {}

VARIABLES
    given,    \* given[a]: what was there before: "none", a key of the operator, or
              \* something that cannot be read, or is no seed of an ed25519 key
    exists,   \* exists[a]: is there a file?
    lines,    \* lines[a]: its lines, "hole" where nothing was written
    pc,       \* pc[s]: where a start is, or how it ended
    at,       \* at[s]: the number of the algorithm it is at
    pos,      \* pos[s]: the line it writes or reads next
    seen,     \* seen[s]: the lines it has read
    key,      \* key[s][a]: the key it added to the server, or "none"
    raced,    \* raced[a]: has a start come while another was making the file?
    torn      \* torn[a]: has a start ended in the middle of making it?

files == <<exists, lines>>
place == <<at, pos, seen>>
past  == <<given, raced, torn>>
vars  == <<files, pc, place, key, past>>

Size(a) == DataLines[a] + 1
Whole(a, k) == [i \in 1..Size(a) |-> IF i = Size(a) THEN "end" ELSE k]
Empty(a) == [i \in 1..Size(a) |-> "hole"]

Givens(a) == {"none", "operator", "unreadable"} \cup (IF a = "ed25519" THEN {"badSeed"} ELSE {})

Init ==
    /\ given \in [Algs -> {"none", "operator", "unreadable", "badSeed"}]
    /\ \A a \in Algs : given[a] \in Givens(a)
    /\ exists = [a \in Algs |-> given[a] # "none"]
    /\ lines = [a \in Algs |-> IF given[a] = "none" THEN Empty(a) ELSE Whole(a, given[a])]
    /\ pc = [s \in Starts |-> "stat"] /\ at = [s \in Starts |-> 1]
    /\ pos = [s \in Starts |-> 1] /\ seen = [s \in Starts |-> <<>>]
    /\ key = [s \in Starts |-> [a \in Algs |-> "none"]]
    /\ raced = [a \in Algs |-> FALSE] /\ torn = [a \in Algs |-> FALSE]

-----------------------------------------------------------------------------
Alg(s) == Algorithms[at[s]]

Making(s, a) == pc[s] \in {"create", "write"} /\ Alg(s) = a

(* ReadOrMakeHostKey: a file that is not there is made. *)
AlwaysMissing(a) == TRUE   \* mutant: a key is made at every start
Missing(a) == ~exists[a]

Stat(s) ==
    /\ pc[s] = "stat"
    /\ pc' = [pc EXCEPT ![s] = IF Missing(Alg(s)) THEN "create" ELSE "read"]
    /\ raced' = [raced EXCEPT ![Alg(s)] = @ \/ \E t \in Starts \ {s} : Making(t, Alg(s))]
    /\ UNCHANGED <<files, place, key, given, torn>>

(* makeHostKey: os.Create truncates a file that another start made meanwhile. *)
Create(s) ==
    /\ pc[s] = "create"
    /\ exists' = [exists EXCEPT ![Alg(s)] = TRUE]
    /\ lines' = [lines EXCEPT ![Alg(s)] = Empty(Alg(s))]
    /\ pc' = [pc EXCEPT ![s] = "write"]
    /\ UNCHANGED <<place, key, past>>

(* pem.Encode writes one line after another, each at the place its file is at. *)
Unended(a) == DataLines[a]   \* mutant: the last line stays in a buffer
LastLine(a) == Size(a)

Generated(s) == s   \* the data of the key that a start makes

Write(s) ==
    /\ pc[s] = "write"
    /\ LET a == Alg(s) IN
       /\ lines' = [lines EXCEPT ![a][pos[s]] = IF pos[s] = Size(a) THEN "end" ELSE Generated(s)]
       /\ IF pos[s] = LastLine(a)
          THEN pc' = [pc EXCEPT ![s] = "read"] /\ pos' = [pos EXCEPT ![s] = 1]
          ELSE pos' = [pos EXCEPT ![s] = @ + 1] /\ UNCHANGED pc
    /\ UNCHANGED <<exists, at, seen, key, past>>

(* loadHostKey, which also reads back what was just made. *)
Written(a, i) == \E j \in i..Size(a) : lines[a][j] # "hole"

More(s) == pos[s] <= Size(Alg(s)) /\ Written(Alg(s), pos[s])

Read(s) ==
    /\ pc[s] = "read" /\ More(s)
    /\ seen' = [seen EXCEPT ![s] = Append(@, lines[Alg(s)][pos[s]])]
    /\ pos' = [pos EXCEPT ![s] = @ + 1]
    /\ UNCHANGED <<files, pc, at, key, past>>

(* UnmarshalPEM: the lines are those of one key.  A seed of another length makes
   ed25519.NewKeyFromSeed panic.                                                  *)
LastPlusOne == Len(Algorithms) + 1   \* mutant: one algorithm too many
LastAlgorithm == Len(Algorithms)

Usable(s, k) == k \in Starts \cup {"operator"} /\ seen[s] = Whole(Alg(s), k)

Parsed(s) ==
    /\ pc[s] = "read" /\ ~More(s)
    /\ \E k \in Starts \cup {"operator"} :
          Usable(s, k) /\ key' = [key EXCEPT ![s][Alg(s)] = k]
    /\ IF at[s] = LastAlgorithm THEN pc' = [pc EXCEPT ![s] = "serving"] /\ UNCHANGED at
       ELSE pc' = [pc EXCEPT ![s] = "stat"] /\ at' = [at EXCEPT ![s] = @ + 1]
    /\ pos' = [pos EXCEPT ![s] = 1] /\ seen' = [seen EXCEPT ![s] = <<>>]
    /\ UNCHANGED <<files, past>>

Rejected(s) ==
    /\ pc[s] = "read" /\ ~More(s)
    /\ \A k \in Starts \cup {"operator"} : ~Usable(s, k)
    /\ pc' = [pc EXCEPT ![s] = IF seen[s] = Whole(Alg(s), "badSeed")
                               THEN "panicked" ELSE "rejected"]
    /\ UNCHANGED <<files, place, key, past>>

-----------------------------------------------------------------------------
(* A call of the file system fails, and with it the start, or the daemon ends. *)
EndStart(s) ==
    /\ pc[s] \in {"stat", "create", "write", "read", "serving"}
    /\ pc' = [pc EXCEPT ![s] = "ended"]
    /\ torn' = [torn EXCEPT ![Alg(s)] = @ \/ pc[s] = "write"]
    /\ UNCHANGED <<files, place, key, given, raced>>

UseOrMakeHostKeys(s) ==
    Stat(s) \/ Create(s) \/ Write(s) \/ Read(s) \/ Parsed(s) \/ Rejected(s)

Next == \E s \in Starts : UseOrMakeHostKeys(s) \/ EndStart(s)

Spec == Init /\ [][Next]_vars

-----------------------------------------------------------------------------
(* The values the variables can take. *)
Keys == Starts \cup {"operator"}
Contents == Keys \cup {"unreadable", "badSeed", "end", "hole"}

TypeOK ==
    /\ DOMAIN given = Algs /\ DOMAIN lines = Algs /\ DOMAIN seen = Starts
    /\ \A a \in Algs : given[a] \in Givens(a)
    /\ exists \in [Algs -> BOOLEAN]
    /\ \A a \in Algs : lines[a] \in [1..Size(a) -> Contents]
    /\ pc \in [Starts -> {"stat", "create", "write", "read", "serving",
                          "rejected", "panicked", "ended"}]
    /\ at \in [Starts -> 1..Len(Algorithms)] /\ pos \in [Starts -> Nat \ {0}]
    /\ \A s \in Starts : seen[s] \in Seq(Contents) /\ Len(seen[s]) <= Size(Alg(s))
    /\ key \in [Starts -> [Algs -> Keys \cup {"none"}]]
    /\ raced \in [Algs -> BOOLEAN] /\ torn \in [Algs -> BOOLEAN]

(* Clients see one key: all the servers that ever used a file, before and after
   crashes and restarts, have the same key of it, unless a start came while another
   was making the file.                                                             *)
Agree ==
    \A a \in Algs : raced[a] \/
        \A s, t \in Starts : "none" \in {key[s][a], key[t][a]} \/ key[s][a] = key[t][a]

(* A start whose files can be read, but not be used, met a file that was there
   before, or that a crash left unfinished, or that two starts were making.  A panic
   takes an ed25519 file whose seed has another length.                              *)
FailureExplained ==
    \A s \in Starts :
        /\ pc[s] = "rejected" => torn[Alg(s)] \/ raced[Alg(s)] \/ given[Alg(s)] = "unreadable"
        /\ pc[s] = "panicked" => given[Alg(s)] = "badSeed"
=============================================================================
