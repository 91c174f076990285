------------------------------ MODULE KeyFile -------------------------------
(***************************************************************************)
(* The file with a client's key pair, and the programs that call           *)
(* identity.LoadOrGenerate on it: started, stopped and killed at any       *)
(* point, several of them at once.                                         *)
(*                                                                         *)
(* os.WriteFile is two steps: open, which makes the file empty, and write. *)
(* The key is 64 bytes in one write, so a file is absent, empty or whole.  *)
(***************************************************************************)
EXTENDS Naturals

CONSTANTS
    Users,          \* programs that share one key file
    Absent, Empty,  \* what a file may be besides whole
    MaxLoads        \* bound: calls of LoadOrGenerate

ASSUME KeyAssumption == /\ MaxLoads \in Nat
                        /\ Absent # Empty /\ {Absent, Empty} \cap (0..MaxLoads) = {}

VARIABLES
    keyFile,    \* Absent, Empty, or the number of a key pair
    user,       \* user[u]: the next step of LoadOrGenerate, "off" or "runs"
    key,        \* key[u]: the key pair u holds, 0 for none
    loads,      \* calls so far; the number of the pair a call may generate
    known,      \* history: the key pairs LoadOrGenerate has returned
    keyRaced,   \* history: two calls were saving at once
    keyTorn     \* history: a program died between open and write

keyVars == <<keyFile, user, key, loads, known, keyRaced, keyTorn>>

KeyInit ==
    /\ keyFile = Absent
    /\ user = [u \in Users |-> "off"]
    /\ key = [u \in Users |-> 0]
    /\ loads = 0
    /\ known = {} /\ keyRaced = FALSE /\ keyTorn = FALSE

\* u has decided to generate and has not finished saving.
Saving(u) == user[u] \in {"open", "write"}

-----------------------------------------------------------------------------

CallLoadOrGenerate(u) ==
    /\ user[u] = "off"
    /\ loads < MaxLoads
    /\ loads' = loads + 1
    /\ user' = [user EXCEPT ![u] = "load"]
    /\ key' = [key EXCEPT ![u] = loads + 1]
    /\ UNCHANGED <<keyFile, known, keyTorn>>

\* LoadFromFile reads 64 bytes.
LoadFromFile(u) ==
    /\ user[u] = "load"
    /\ keyFile \notin {Absent, Empty}
    /\ user' = [user EXCEPT ![u] = "runs"]
    /\ key' = [key EXCEPT ![u] = keyFile]
    /\ known' = known \cup {keyFile}
    /\ UNCHANGED <<keyFile, loads, keyTorn>>

\* os.ErrNotExist: Generate a new pair.
Generate(u) ==
    /\ user[u] = "load"
    /\ keyFile = Absent
    /\ user' = [user EXCEPT ![u] = "open"]
    /\ UNCHANGED <<keyFile, key, loads, known, keyTorn>>

\* Mutant: a new pair is generated whatever the error was.
LoadFailsGenerates(u) ==
    /\ user[u] = "load"
    /\ user' = [user EXCEPT ![u] = "open"]
    /\ UNCHANGED <<keyFile, key, loads, known, keyTorn>>

\* Another error: a file of another size, or a read that failed.
LoadFails(u) ==
    /\ user[u] = "load"
    /\ user' = [user EXCEPT ![u] = "off"]
    /\ key' = [key EXCEPT ![u] = 0]
    /\ UNCHANGED <<keyFile, loads, known, keyTorn>>

\* SaveToFile: os.WriteFile opens the file with O_TRUNC ...
SaveOpens(u) ==
    /\ user[u] = "open"
    /\ keyFile' = Empty
    /\ user' = [user EXCEPT ![u] = "write"]
    /\ UNCHANGED <<key, loads, known, keyTorn>>

\* ... and writes it; LoadOrGenerate returns.
SaveWrites(u) ==
    /\ user[u] = "write"
    /\ keyFile' = key[u]
    /\ user' = [user EXCEPT ![u] = "runs"]
    /\ known' = known \cup {key[u]}
    /\ UNCHANGED <<key, loads, keyTorn>>

\* The program ends, by itself or not; an error of open or write, which
\* LoadOrGenerate returns, leaves the file as it is too.
UserEnds(u) ==
    /\ user[u] # "off"
    /\ user' = [user EXCEPT ![u] = "off"]
    /\ key' = [key EXCEPT ![u] = 0]
    /\ keyTorn' = (keyTorn \/ user[u] = "write")
    /\ UNCHANGED <<keyFile, loads, known>>

UserStep(u) ==
    \/ CallLoadOrGenerate(u) \/ LoadFromFile(u) \/ Generate(u) \/ LoadFails(u)
    \/ SaveOpens(u) \/ SaveWrites(u) \/ UserEnds(u)

KeyNext ==
    /\ \E u \in Users : UserStep(u)
    /\ keyRaced' = (keyRaced \/ \E u, v \in Users : u # v /\ Saving(u)' /\ Saving(v)')

-----------------------------------------------------------------------------
(* Properties                                                              *)

\* A client keeps its identity: whatever LoadOrGenerate has once returned is
\* what the file holds and what every later call returns, through crashes and
\* failed reads, unless two programs were saving a first key at once.  And a
\* file that no call can load any more was left by a program that died
\* between truncating and writing it, or by such a race.
IdentityKept ==
    keyRaced \/ /\ known \subseteq {keyFile}
                /\ \A u \in Users : user[u] = "runs" => key[u] = keyFile
                /\ keyFile = Empty /\ (\A u \in Users : ~Saving(u)) => keyTorn

=============================================================================
