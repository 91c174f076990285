-------------------------- MODULE NodeFilesProofs ---------------------------
(***************************************************************************)
(* Proofs about the files of a node and of its clients, for any number of  *)
(* processes, starts, deaths and calls of LoadOrGenerate.                  *)
(***************************************************************************)
EXTENDS NodeFiles, TLAPS

-----------------------------------------------------------------------------
(* The key file                                                            *)

KeyTypes ==
    /\ keyFile \in {Absent, Empty} \cup 0..MaxLoads
    /\ user \in [Users -> {"off", "load", "open", "write", "runs"}]
    /\ key \in [Users -> 0..MaxLoads]
    /\ loads \in 0..MaxLoads
    /\ known \subseteq 0..MaxLoads
    /\ keyRaced \in BOOLEAN /\ keyTorn \in BOOLEAN

\* Unless two programs saved at once: one that is about to open the file has
\* seen that there is none, one that is about to write has emptied it, and no
\* key has been returned before.
OneSaver ==
    /\ \A u, v \in Users : Saving(u) /\ Saving(v) => u = v
    /\ \A u \in Users : user[u] = "open" => keyFile = Absent
    /\ \A u \in Users : user[u] = "write" => keyFile = Empty
    /\ known \subseteq {keyFile}
    /\ \A u \in Users : user[u] = "runs" => key[u] = keyFile
    /\ keyFile = Empty /\ (\A u \in Users : user[u] # "write") => keyTorn

KeyInv == KeyTypes /\ (keyRaced \/ OneSaver)

\* Numbers of key pairs are told from a file that is absent or empty.
LEMMA KeysAreKeys ==
  /\ Absent # Empty /\ Absent \notin 0..MaxLoads /\ Empty \notin 0..MaxLoads
  /\ MaxLoads \in Nat /\ 0 \in 0..MaxLoads
BY KeyAssumption

\* Every step of a program keeps the types.
LEMMA KeyTypesStep ==
  ASSUME KeyTypes, NEW u \in Users, UserStep(u), keyRaced' \in BOOLEAN
  PROVE  KeyTypes'
<1>1. CASE CallLoadOrGenerate(u)
  BY <1>1, KeysAreKeys DEF CallLoadOrGenerate, KeyTypes
<1>2. CASE LoadFromFile(u)
  BY <1>2, KeysAreKeys DEF LoadFromFile, KeyTypes
<1>3. CASE Generate(u) \/ LoadFails(u)
  <2>1. UNCHANGED <<keyFile, loads, known, keyTorn>>
    BY <1>3 DEF Generate, LoadFails
  <2>2. user' \in [Users -> {"off", "load", "open", "write", "runs"}]
    BY <1>3 DEF Generate, LoadFails, KeyTypes
  <2>3. key' \in [Users -> 0..MaxLoads]
    BY <1>3, KeysAreKeys DEF Generate, LoadFails, KeyTypes
  <2> QED
    BY <2>1, <2>2, <2>3 DEF KeyTypes
<1>4. CASE SaveOpens(u) \/ SaveWrites(u)
  BY <1>4, KeysAreKeys DEF SaveOpens, SaveWrites, KeyTypes
<1>5. CASE UserEnds(u)
  BY <1>5, KeysAreKeys DEF UserEnds, KeyTypes
<1> QED
  BY <1>1, <1>2, <1>3, <1>4, <1>5 DEF UserStep

\* A step of a program, unless another saves at the same time.
LEMMA OneSaverStep ==
  ASSUME KeyTypes, OneSaver, NEW u \in Users, UserStep(u),
         \A v, w \in Users : v # w => ~(Saving(v)' /\ Saving(w)')
  PROVE  OneSaver'
<1>0. /\ user \in [Users -> {"off", "load", "open", "write", "runs"}]
      /\ key \in [Users -> 0..MaxLoads] /\ known \subseteq 0..MaxLoads
      /\ \A v \in Users : key[v] # Absent /\ key[v] # Empty
      /\ Absent # Empty /\ Absent \notin known /\ Empty \notin known
  BY KeysAreKeys DEF KeyTypes
<1>1. \A v, w \in Users : Saving(v)' /\ Saving(w)' => v = w
  OBVIOUS
<1>2. CASE CallLoadOrGenerate(u) \/ LoadFails(u)
  BY <1>0, <1>1, <1>2 DEF CallLoadOrGenerate, LoadFails, OneSaver
<1>3. CASE LoadFromFile(u)
  BY <1>0, <1>1, <1>3 DEF LoadFromFile, OneSaver
<1>4. CASE Generate(u)
  BY <1>0, <1>1, <1>4 DEF Generate, OneSaver
<1>5. CASE SaveOpens(u)
  <2>1. /\ keyFile = Absent /\ known = {}
        /\ \A v \in Users : user[v] # "runs"
    BY <1>0, <1>5 DEF SaveOpens, OneSaver
  <2>2. \A v \in Users : v # u => user[v] \notin {"open", "write"}
    BY <1>5 DEF SaveOpens, OneSaver, Saving
  <2> QED
    BY <1>0, <1>1, <1>5, <2>1, <2>2 DEF SaveOpens, OneSaver
<1>6. CASE SaveWrites(u)
  <2>1. /\ keyFile = Empty /\ known = {}
        /\ \A v \in Users : user[v] # "runs"
    BY <1>0, <1>6 DEF SaveWrites, OneSaver
  <2>2. \A v \in Users : v # u => user[v] \notin {"open", "write"}
    BY <1>6 DEF SaveWrites, OneSaver, Saving
  <2> QED
    BY <1>0, <1>1, <1>6, <2>1, <2>2 DEF SaveWrites, OneSaver
<1>7. CASE UserEnds(u)
  BY <1>0, <1>1, <1>7 DEF UserEnds, OneSaver
<1> QED
  BY <1>2, <1>3, <1>4, <1>5, <1>6, <1>7 DEF UserStep

LEMMA KeyStep ==
  KeyInv /\ [Next]_vars => KeyInv'
<1> SUFFICES ASSUME KeyInv, [Next]_vars
             PROVE  KeyInv'
  OBVIOUS
<1>1. CASE KeyNext
  <2>1. PICK u \in Users : UserStep(u)
    BY <1>1 DEF KeyNext
  <2>2. keyRaced' = (keyRaced \/ \E v, w \in Users : v # w /\ Saving(v)' /\ Saving(w)')
    BY <1>1 DEF KeyNext
  <2>3. keyRaced' \in BOOLEAN
    BY <2>2
  <2>4. KeyTypes'
    BY <2>1, <2>3, KeyTypesStep DEF KeyInv
  <2>5. ~keyRaced' => OneSaver'
    BY <2>1, <2>2, OneSaverStep DEF KeyInv
  <2> QED
    BY <2>4, <2>5 DEF KeyInv
<1>2. CASE UNCHANGED keyVars
  BY <1>2 DEF keyVars, KeyInv, KeyTypes, OneSaver, Saving
<1>3. CASE UNCHANGED vars
  BY <1>2, <1>3 DEF vars
<1> QED
  BY <1>1, <1>2, <1>3 DEF Next

\* A client keeps its identity through crashes and failed reads, unless two
\* programs were saving a first key at once.
THEOREM IdentityIsKept == Spec => []IdentityKept
<1>1. Init => KeyInv
  <2> SUFFICES ASSUME KeyInit
               PROVE  KeyInv
    BY DEF Init
  <2>1. KeyTypes
    BY KeysAreKeys DEF KeyInit, KeyTypes
  <2>2. OneSaver
    BY KeysAreKeys DEF KeyInit, OneSaver, Saving
  <2> QED
    BY <2>1, <2>2 DEF KeyInv
<1>2. KeyInv => IdentityKept
  BY DEF KeyInv, OneSaver, IdentityKept, Saving
<1> QED
  BY <1>1, <1>2, KeyStep, PTL DEF Spec

-----------------------------------------------------------------------------
(* The files of the node: types                                            *)

Parts   == 0..MaxStarts \cup {Empty}
Pems    == [head : Parts, tail : Parts]
Blank   == [head |-> Empty, tail |-> Empty]
Begun(i) == [head |-> i, tail |-> Empty]
Whole(i) == [head |-> i, tail |-> i]

Encoding == {<<"open", "cert">>, <<"head", "cert">>, <<"tail", "cert">>,
             <<"open", "key">>, <<"head", "key">>, <<"tail", "key">>}
Later    == {<<"inited">>, <<"validate">>, <<"listen">>, <<"loadCert">>, <<"loadKey">>}
Idle     == {<<"off">>, <<"serving">>}
Steps    == {<<"statConfig">>, <<"openConfig">>, <<"writeConfig">>, <<"statCert">>,
             <<"statKey">>} \cup Encoding \cup Later \cup Idle

InUse      == {Absent, "default", "builtin", "own"}
Remembered == [id : 0..MaxStarts, seen : BOOLEAN, cfg : InUse, got : Pems \cup {Absent},
               unseen : SUBSET {"config", "cert", "key"}]
Configs    == {Absent, Empty, "default", "own"}

NodeTypes ==
    /\ config \in Configs
    /\ file \in [Files -> Pems \cup {Absent}]
    /\ at \in [Procs -> Steps]
    /\ proc \in [Procs -> Remembered]
    /\ starts \in 0..MaxStarts
    /\ removed \in Nat
    /\ \A x \in {raced, torn, failed, cfgFault} : x \in BOOLEAN

\* A file that is being written is there.
Opened ==
    \A p \in Procs, f \in Files : at[p] \in {<<"head", f>>, <<"tail", f>>} => file[f] # Absent

\* Files, numbers and markers are told from each other.
LEMMA NodeConstants ==
  /\ MaxStarts \in Nat /\ 0 \in 0..MaxStarts /\ MaxRemoved \in Nat
  /\ Absent # Empty /\ Empty \notin 0..MaxStarts /\ Absent \notin Pems
  /\ Empty # "default" /\ Absent # "builtin" /\ Absent # "own" /\ Empty # "own"
<1>1. Absent # Empty
  BY KeyAssumption
<1>2. MaxStarts \in Nat /\ MaxRemoved \in Nat /\ Empty \notin 0..MaxStarts
  BY NodeAssumption
<1>3. Absent \notin Pems
  BY NodeAssumption DEF Pems, Parts
<1>4. Empty # "default" /\ Absent # "builtin" /\ Absent # "own" /\ Empty # "own"
  BY NodeAssumption
<1> QED
  BY <1>1, <1>2, <1>3, <1>4

\* What the steps of a process are called.
LEMMA StepNames ==
  ASSUME NodeTypes, NEW p \in Procs
  PROVE  /\ Generating(p) <=> at[p] \in Encoding
         /\ Starting(p) <=> at[p] \notin Idle
         /\ Generating(p) => Starting(p)
<1>1. at[p] \in Steps
  BY DEF NodeTypes
<1>2. Generating(p) <=> at[p] \in Encoding
  BY <1>1 DEF Generating, Steps, Encoding, Later, Idle
<1>3. Starting(p) <=> at[p] \notin Idle
  BY DEF Starting, Idle
<1>4. at[p] \in Encoding => at[p] \notin Idle
  BY DEF Encoding, Idle
<1> QED
  BY <1>2, <1>3, <1>4

\* A step of process p: a step of one action, which leaves what the others do
\* and remember alone.
ProcStep(p) == InitAppDir(p) \/ Run(p) \/ Dies(p)
LEMMA Others ==
  ASSUME NodeTypes, NEW p \in Procs, ProcStep(p), NEW q \in Procs, q # p
  PROVE  at'[q] = at[q] /\ proc'[q] = proc[q] /\ removed' = removed
<1>0. DOMAIN at = Procs /\ DOMAIN proc = Procs
  BY DEF NodeTypes
<1>1. CASE InitAppDir(p)
  BY <1>0, <1>1 DEF InitAppDir, Start, StatConfig, OpenConfig, WriteConfig, StatCert,
     StatKey, Open, EncodeHead, EncodeTail, Goto
<1>2. CASE Run(p)
  BY <1>0, <1>2 DEF Run, InitOnly, Load, Validate, Listen, LoadCert, LoadKey, Stop, Exits,
     Goto
<1>3. CASE Dies(p)
  BY <1>0, <1>3 DEF Dies, Goto
<1> QED
  BY <1>1, <1>2, <1>3 DEF ProcStep

\* What a process remembers of a call of os.Stat: a file it did not see is
\* absent or recorded, and the rest is as before.
LEMMA Stats ==
  ASSUME NodeTypes, NEW p \in Procs, StatConfig(p) \/ StatCert(p) \/ StatKey(p)
  PROVE  /\ proc' \in [Procs -> Remembered]
         /\ proc'[p].id = proc[p].id /\ proc'[p].cfg = proc[p].cfg
         /\ proc[p].unseen \subseteq proc'[p].unseen
         /\ StatConfig(p) /\ at'[p] = <<"openConfig">> =>
               config = Absent \/ "config" \in proc'[p].unseen
         /\ StatCert(p) => IF proc'[p].seen THEN file["cert"] # Absent
                           ELSE file["cert"] = Absent \/ "cert" \in proc'[p].unseen
         /\ StatKey(p) => \/ /\ at'[p] = <<"inited">>
                             /\ proc[p].seen /\ file["key"] # Absent
                          \/ /\ at'[p] = <<"open", "cert">>
                             /\ \/ ~proc[p].seen \/ file["key"] = Absent
                                \/ "key" \in proc'[p].unseen
<1>0. /\ at \in [Procs -> Steps] /\ proc \in [Procs -> Remembered]
      /\ proc[p] \in Remembered
  BY DEF NodeTypes
<1>1. ASSUME NEW n \in {"config", "cert", "key"}, NEW content, NEW x \in BOOLEAN,
             NEW y \in BOOLEAN,
             \/ proc' = [proc EXCEPT ![p].unseen = Missed(p, n, content, x)]
             \/ proc' = [proc EXCEPT ![p].seen = y, ![p].unseen = Missed(p, n, content, x)]
      PROVE  /\ proc' \in [Procs -> Remembered]
             /\ proc'[p].id = proc[p].id /\ proc'[p].cfg = proc[p].cfg
             /\ proc[p].unseen \subseteq proc'[p].unseen
             /\ x \/ content = Absent \/ n \in proc'[p].unseen
  <2>1. /\ Missed(p, n, content, x) \in SUBSET {"config", "cert", "key"}
        /\ proc[p].unseen \subseteq Missed(p, n, content, x)
        /\ x \/ content = Absent \/ n \in Missed(p, n, content, x)
    BY <1>0 DEF Missed, Remembered
  <2> QED
    BY <1>0, <1>1, <2>1 DEF Remembered
<1>2. ASSUME NEW content, NEW x \in StatResults(content)
      PROVE  x \in BOOLEAN /\ (x => content # Absent)
  BY <1>2 DEF StatResults
<1>3. CASE StatConfig(p)
  <2>1. PICK x \in StatResults(config) :
           /\ at' = [at EXCEPT ![p] = IF x THEN <<"statCert">> ELSE <<"openConfig">>]
           /\ proc' = [proc EXCEPT ![p].unseen = Missed(p, "config", config, x)]
    BY <1>3 DEF StatConfig, Goto
  <2>2. x => at'[p] # <<"openConfig">>
    BY <1>0, <2>1
  <2>3. ~StatCert(p) /\ ~StatKey(p)
    BY <1>3 DEF StatConfig, StatCert, StatKey
  <2>4. x \in BOOLEAN /\ (x => config # Absent)
    BY <1>2
  <2>5. /\ proc' \in [Procs -> Remembered]
        /\ proc'[p].id = proc[p].id /\ proc'[p].cfg = proc[p].cfg
        /\ proc[p].unseen \subseteq proc'[p].unseen
        /\ x \/ config = Absent \/ "config" \in proc'[p].unseen
    BY <1>1, <2>1, <2>4
  <2> QED
    BY <2>2, <2>3, <2>4, <2>5
<1>4. CASE StatCert(p)
  <2>1. PICK x \in StatResults(file["cert"]) :
           proc' = [proc EXCEPT ![p].seen = x,
                                ![p].unseen = Missed(p, "cert", file["cert"], x)]
    BY <1>4 DEF StatCert
  <2>2. proc'[p].seen = x
    BY <1>0, <2>1 DEF Remembered
  <2>3. ~StatConfig(p) /\ ~StatKey(p)
    BY <1>4 DEF StatConfig, StatCert, StatKey
  <2>4. x \in BOOLEAN /\ (x => file["cert"] # Absent)
    BY <1>2
  <2>5. /\ proc' \in [Procs -> Remembered]
        /\ proc'[p].id = proc[p].id /\ proc'[p].cfg = proc[p].cfg
        /\ proc[p].unseen \subseteq proc'[p].unseen
        /\ x \/ file["cert"] = Absent \/ "cert" \in proc'[p].unseen
    BY <1>1, <2>1, <2>4
  <2> QED
    BY <2>2, <2>3, <2>4, <2>5
<1>5. CASE StatKey(p)
  <2>1. PICK x \in StatResults(file["key"]) :
           /\ at' = [at EXCEPT ![p] = IF PairExists(p, x) THEN <<"inited">>
                                      ELSE <<"open", "cert">>]
           /\ proc' = [proc EXCEPT ![p].unseen = Missed(p, "key", file["key"], x)]
    BY <1>5 DEF StatKey, Goto
  <2>2. at'[p] = IF proc[p].seen /\ x THEN <<"inited">> ELSE <<"open", "cert">>
    BY <1>0, <2>1 DEF PairExists
  <2>3. ~StatConfig(p) /\ ~StatCert(p)
    BY <1>5 DEF StatConfig, StatCert, StatKey
  <2>4. x \in BOOLEAN /\ (x => file["key"] # Absent)
    BY <1>2
  <2>5. /\ proc' \in [Procs -> Remembered]
        /\ proc'[p].id = proc[p].id /\ proc'[p].cfg = proc[p].cfg
        /\ proc[p].unseen \subseteq proc'[p].unseen
        /\ x \/ file["key"] = Absent \/ "key" \in proc'[p].unseen
    BY <1>1, <2>1, <2>4
  <2> QED
    BY <2>2, <2>3, <2>4, <2>5
<1> QED
  BY <1>3, <1>4, <1>5

\* Every step of a process keeps the types of what the processes share.
LEMMA NodeTypesStep ==
  ASSUME NodeTypes, Opened, NEW p \in Procs, ProcStep(p),
         raced' \in BOOLEAN, cfgFault' \in BOOLEAN
  PROVE  NodeTypes'
<1>0. /\ at \in [Procs -> Steps] /\ proc \in [Procs -> Remembered]
      /\ file \in [Files -> Pems \cup {Absent}] /\ starts \in 0..MaxStarts
      /\ proc[p].id \in 0..MaxStarts /\ proc[p] \in Remembered
      /\ torn \in BOOLEAN /\ failed \in BOOLEAN
      /\ config \in Configs /\ removed \in Nat
  BY DEF NodeTypes, Remembered
<1>1. Fresh \in Remembered
  BY NodeConstants DEF Fresh, Remembered, InUse
<1>2. removed' = removed
  BY DEF ProcStep, InitAppDir, Start, StatConfig, OpenConfig, WriteConfig, StatCert,
     StatKey, Open, EncodeHead, EncodeTail, Run, InitOnly, Load, Validate, Listen, LoadCert,
     LoadKey, Stop, Dies
<1>3. torn' \in BOOLEAN /\ failed' \in BOOLEAN
  BY <1>0 DEF ProcStep, InitAppDir, Start, StatConfig, OpenConfig, WriteConfig, StatCert,
     StatKey, Open, EncodeHead, EncodeTail, Run, InitOnly, Load, Validate, Listen, LoadCert,
     LoadKey, Stop, Exits, Dies, pastVars
<1>4. config' \in Configs
  BY <1>0 DEF ProcStep, InitAppDir, Start, StatConfig, OpenConfig, WriteConfig, StatCert,
     StatKey, Open, EncodeHead, EncodeTail, Run, InitOnly, Load, Validate, Listen, LoadCert,
     LoadKey, Stop, Dies, fileVars, Configs
<1>5. at' \in [Procs -> Steps]
  <2>1. \E x \in Steps : at' = [at EXCEPT ![p] = x]
    <3>1. CASE InitAppDir(p)
      BY <3>1 DEF InitAppDir, Start, StatConfig, OpenConfig, WriteConfig, StatCert,
         StatKey, Open, EncodeHead, EncodeTail, Goto, Steps, Encoding, Later, Idle, Files
    <3>2. CASE Run(p) \/ Dies(p)
      BY <3>2 DEF Run, InitOnly, Load, Validate, Listen, LoadCert, LoadKey, Stop, Exits,
         Dies, Goto, Steps, Encoding, Later, Idle
    <3> QED
      BY <3>1, <3>2 DEF ProcStep
  <2> QED
    BY <1>0, <2>1
<1>6. starts' \in 0..MaxStarts
  <2>1. CASE Start(p)
    BY <1>0, <2>1, NodeConstants DEF Start
  <2>2. CASE starts' = starts
    BY <1>0, <2>2
  <2> QED
    BY <2>1, <2>2 DEF ProcStep, InitAppDir, StatConfig, OpenConfig, WriteConfig, StatCert,
       StatKey, Open, EncodeHead, EncodeTail, Run, InitOnly, Load, Validate, Listen,
       LoadCert, LoadKey, Stop, Dies
<1>7. file' \in [Files -> Pems \cup {Absent}]
  <2>1. ASSUME NEW f \in Files, Open(p, f)
        PROVE  file' \in [Files -> Pems \cup {Absent}]
    BY <1>0, <2>1 DEF Open, Pems, Parts
  <2>2. ASSUME NEW f \in Files, EncodeHead(p, f) \/ EncodeTail(p, f)
        PROVE  file' \in [Files -> Pems \cup {Absent}]
    <3>1. file[f] \in Pems
      BY <1>0, <2>2 DEF Opened, EncodeHead, EncodeTail
    <3>2. PICK i \in 0..MaxStarts : i = proc[p].id
      BY <1>0
    <3>3. \/ file' = [file EXCEPT ![f].head = i]
          \/ file' = [file EXCEPT ![f].tail = i]
      BY <2>2, <3>2 DEF EncodeHead, EncodeTail
    <3> QED
      BY <1>0, <3>1, <3>3 DEF Pems, Parts
  <2>3. CASE ~ \E f \in Files : Open(p, f) \/ EncodeHead(p, f) \/ EncodeTail(p, f)
    BY <1>0, <2>3 DEF ProcStep, InitAppDir, Start, StatConfig, OpenConfig, WriteConfig,
       StatCert, StatKey, Run, InitOnly, Load, Validate, Listen, LoadCert, LoadKey, Stop,
       Dies, fileVars
  <2> QED
    BY <2>1, <2>2, <2>3
<1>8. proc' \in [Procs -> Remembered]
  <2>1. CASE Start(p)
    <3>1. starts + 1 \in 0..MaxStarts
      BY <1>0, <2>1, NodeConstants DEF Start
    <3>2. [Fresh EXCEPT !.id = starts + 1] \in Remembered
      BY <3>1, NodeConstants DEF Fresh, Remembered, InUse
    <3> QED
      BY <1>0, <2>1, <3>2 DEF Start
  <2>2. CASE StatConfig(p) \/ StatCert(p) \/ StatKey(p)
    BY <1>0, <2>2, Stats
  <2>3. CASE Load(p)
    <3>1. PICK x \in InUse : proc' = [proc EXCEPT ![p].cfg = x]
      BY <1>0, <2>3 DEF Load, Unmarshal, InUse, Configs
    <3> QED
      BY <1>0, <3>1 DEF Remembered
  <2>4. CASE LoadCert(p)
    <3>1. PICK x \in Pems \cup {Absent} : proc' = [proc EXCEPT ![p].got = x]
      BY <1>0, <2>4 DEF LoadCert, Files
    <3> QED
      BY <1>0, <3>1 DEF Remembered
  <2>5. CASE proc' = proc \/ proc' = [proc EXCEPT ![p] = Fresh]
    BY <1>0, <1>1, <2>5
  <2> QED
    BY <2>1, <2>2, <2>3, <2>4, <2>5 DEF ProcStep, InitAppDir, OpenConfig,
       WriteConfig, Open, EncodeHead, EncodeTail, Run, InitOnly, Validate, Listen,
       LoadKey, Stop, Exits, Dies
<1> QED
  BY <1>2, <1>3, <1>4, <1>5, <1>6, <1>7, <1>8 DEF NodeTypes

-----------------------------------------------------------------------------
(* The files of the node: the inductive invariant                          *)

\* Every start has a number of its own, which no file has before it writes it.
KeyNotMine(p) == file["key"] = Absent \/ file["key"].head # proc[p].id
BeforeKey == {<<"statConfig">>, <<"openConfig">>, <<"writeConfig">>, <<"statCert">>,
              <<"statKey">>, <<"open", "cert">>, <<"head", "cert">>, <<"tail", "cert">>,
              <<"open", "key">>}
Numbers ==
    /\ \A p \in Procs : proc[p].id <= starts
    /\ \A p, q \in Procs : Starting(p) /\ Starting(q) /\ proc[p].id = proc[q].id => p = q
    /\ file["key"] = Absent \/ file["key"].head = Empty \/ file["key"].head <= starts
    /\ \A p \in Procs : at[p] \in BeforeKey => KeyNotMine(p)

\* A process that generates a pair is the only one that starts.
Alone == \A p, q \in Procs : Generating(p) /\ Starting(q) => p = q

\* What a process has found or written when it comes to each step.
Stage(p) ==
    /\ at[p] = <<"statKey">> =>
          IF proc[p].seen THEN file["cert"] # Absent
          ELSE file["cert"] = Absent \/ "cert" \in proc[p].unseen
    /\ at[p] = <<"open", "cert">> => \/ file["cert"] = Absent \/ file["key"] = Absent
                                     \/ proc[p].unseen \cap Files # {}
    /\ at[p] = <<"head", "cert">> => file["cert"] = Blank
    /\ at[p] = <<"tail", "cert">> => file["cert"] = Begun(proc[p].id)
    /\ at[p] = <<"open", "key">> => file["cert"] = Whole(proc[p].id)
    /\ at[p] = <<"head", "key">> => file["cert"] = Whole(proc[p].id) /\ file["key"] = Blank
    /\ at[p] = <<"tail", "key">> => /\ file["cert"] = Whole(proc[p].id)
                                   /\ file["key"] = Begun(proc[p].id)
    /\ at[p] = <<"loadKey">> => proc[p].got = file["cert"]

\* Whoever finds two files when nobody has begun to write finds a pair.
Rewriting(p) == Generating(p) /\ at[p] # <<"open", "cert">>
Paired == Usable(file["cert"], file["key"])
Sound ==
    /\ ~failed
    /\ \/ \E p \in Procs : Rewriting(p)
       \/ Absent \in {file[f] : f \in Files}
       \/ Paired
    /\ \A p \in Procs : at[p] \in Later => Paired

PairInv == raced \/ (Alone /\ (\A p \in Procs : Stage(p)) /\ (torn \/ Sound))

\* The configuration file is empty only while it is being written.
ConfigInv ==
    cfgFault \/ /\ \A p, q \in Procs : WritingConfig(p) /\ Starting(q) => p = q
                /\ config = Empty => \E p \in Procs : WritingConfig(p)
                /\ \A p \in Procs : proc[p].cfg # "builtin"

\* Nobody is about to replace the operator's configuration, unless os.Stat
\* failed on it.
Own ==
    config = "own" =>
        \A p \in Procs : /\ ~WritingConfig(p)
                         /\ at[p] = <<"openConfig">> => "config" \in proc[p].unseen

NodeInv == NodeTypes /\ Opened /\ Numbers /\ PairInv /\ ConfigInv /\ Own

-----------------------------------------------------------------------------
(* The files of the node: steps that write                                 *)

Writing(p, f) == Open(p, f) \/ EncodeHead(p, f) \/ EncodeTail(p, f)

\* What a step that writes file f leaves in it, and where it leads.
LEMMA Written ==
  ASSUME NodeTypes, Opened, NEW p \in Procs, NEW f \in Files
  PROVE  /\ Open(p, f) => file'[f] = Blank /\ at'[p] = <<"head", f>>
         /\ EncodeHead(p, f) => /\ at'[p] = <<"tail", f>>
                                /\ file[f] \in Pems /\ file'[f] \in Pems
                                /\ file'[f].head = proc[p].id
                                /\ file'[f].tail = file[f].tail
         /\ EncodeTail(p, f) => /\ at'[p] = IF f = "cert" THEN <<"open", "key">>
                                            ELSE <<"inited">>
                                /\ file[f] \in Pems /\ file'[f] \in Pems
                                /\ file'[f].head = file[f].head
                                /\ file'[f].tail = proc[p].id
         /\ Writing(p, f) => /\ proc' = proc /\ UNCHANGED <<config, starts, removed, pastVars>>
                             /\ \A g \in Files : g # f => file'[g] = file[g]
<1>0. /\ at \in [Procs -> Steps] /\ file \in [Files -> Pems \cup {Absent}]
      /\ proc[p].id \in 0..MaxStarts
  BY DEF NodeTypes, Remembered
<1>1. Open(p, f) => file'[f] = Blank /\ at'[p] = <<"head", f>>
  BY <1>0 DEF Open, Goto, Blank
<1>2. ASSUME EncodeHead(p, f)
      PROVE  /\ at'[p] = <<"tail", f>>
             /\ file[f] \in Pems /\ file'[f] \in Pems
             /\ file'[f].head = proc[p].id
             /\ file'[f].tail = file[f].tail
  <2>1. file[f] \in Pems
    BY <1>0, <1>2 DEF EncodeHead, Opened
  <2>2. file'[f] = [file[f] EXCEPT !.head = proc[p].id]
    BY <1>0, <1>2 DEF EncodeHead
  <2>3. at'[p] = <<"tail", f>>
    BY <1>0, <1>2 DEF EncodeHead, Goto
  <2> QED
    BY <1>0, <2>1, <2>2, <2>3 DEF Pems, Parts
<1>3. ASSUME EncodeTail(p, f)
      PROVE  /\ at'[p] = IF f = "cert" THEN <<"open", "key">> ELSE <<"inited">>
             /\ file[f] \in Pems /\ file'[f] \in Pems
             /\ file'[f].head = file[f].head
             /\ file'[f].tail = proc[p].id
  <2>1. file[f] \in Pems
    BY <1>0, <1>3 DEF EncodeTail, Opened
  <2>2. file'[f] = [file[f] EXCEPT !.tail = proc[p].id]
    BY <1>0, <1>3 DEF EncodeTail
  <2>3. at'[p] = IF f = "cert" THEN <<"open", "key">> ELSE <<"inited">>
    BY <1>0, <1>3 DEF EncodeTail, Goto
  <2> QED
    BY <1>0, <2>1, <2>2, <2>3 DEF Pems, Parts
<1>4. ASSUME Writing(p, f)
      PROVE  /\ proc' = proc /\ UNCHANGED <<config, starts, removed, pastVars>>
             /\ \A g \in Files : g # f => file'[g] = file[g]
  BY <1>0, <1>4 DEF Writing, Open, EncodeHead, EncodeTail
<1> QED
  BY <1>1, <1>2, <1>3, <1>4

\* Every other step of a process leaves both files alone.
LEMMA NotWritten ==
  ASSUME NEW p \in Procs, ProcStep(p), \A f \in Files : ~Writing(p, f)
  PROVE  UNCHANGED file
BY DEF ProcStep, Writing, InitAppDir, Start, StatConfig, OpenConfig, WriteConfig, StatCert,
   StatKey, Run, InitOnly, Load, Validate, Listen, LoadCert, LoadKey, Stop, Dies, fileVars

LEMMA OpenedStep ==
  ASSUME NodeTypes, Opened, NEW p \in Procs, ProcStep(p)
  PROVE  Opened'
<1>0. /\ at \in [Procs -> Steps] /\ Absent \notin Pems /\ Blank \in Pems
  BY NodeConstants DEF NodeTypes, Blank, Pems, Parts
<1>1. CASE \E f \in Files : Writing(p, f)
  <2>1. PICK f \in Files : Writing(p, f)
    BY <1>1
  <2>2. \A q \in Procs : q # p => at'[q] = at[q]
    BY Others
  <2>3. file'[f] # Absent /\ \A g \in Files : g # f => file'[g] = file[g]
    BY <1>0, <2>1, Written DEF Writing
  <2>4. /\ at'[p] \in {<<"head", f>>, <<"tail", f>>, <<"open", "key">>, <<"inited">>}
    BY <2>1, Written DEF Writing
  <2> QED
    BY <2>2, <2>3, <2>4 DEF Opened
<1>2. CASE \A f \in Files : ~Writing(p, f)
  <2>1. \A q \in Procs : q # p => at'[q] = at[q]
    BY Others
  <2>2. UNCHANGED file
    BY <1>2, NotWritten
  <2>3. \A f \in Files : at'[p] \notin {<<"head", f>>, <<"tail", f>>}
    BY <1>0, <1>2 DEF ProcStep, Writing, InitAppDir, Start, StatConfig, OpenConfig, WriteConfig,
       StatCert, StatKey, Run, InitOnly, Load, Validate, Listen, LoadCert, LoadKey, Stop, Dies,
       Exits, Goto, Files
  <2> QED
    BY <2>1, <2>2, <2>3 DEF Opened
<1> QED
  BY <1>1, <1>2

\* How a step of p moves p's number and place.
LEMMA Advance ==
  ASSUME NodeTypes, Numbers, NEW p \in Procs, ProcStep(p)
  PROVE  /\ starts \in Nat /\ starts' \in Nat /\ starts <= starts'
         /\ proc'[p].id <= starts'
         /\ at'[p] \notin Idle => \/ at[p] \notin Idle /\ proc'[p].id = proc[p].id
                                  \/ /\ proc'[p].id = starts + 1 /\ starts' = starts + 1
                                     /\ UNCHANGED file
         /\ at'[p] \in BeforeKey => \/ at[p] \in BeforeKey
                                    \/ proc'[p].id = starts + 1 /\ UNCHANGED file
<1>0. /\ at \in [Procs -> Steps] /\ proc \in [Procs -> Remembered]
      /\ starts \in Nat /\ proc[p].id \in Nat /\ proc[p].id <= starts
      /\ Fresh.id = 0
  BY NodeConstants DEF NodeTypes, Remembered, Numbers, Fresh
<1>1. CASE Start(p)
  <2>1. proc'[p].id = starts + 1 /\ starts' = starts + 1 /\ UNCHANGED file
    BY <1>0, <1>1 DEF Start, Fresh, fileVars
  <2> QED
    BY <1>0, <2>1
<1>2. CASE StatConfig(p) \/ OpenConfig(p) \/ WriteConfig(p) \/ StatCert(p) \/ StatKey(p)
  <2>1. starts' = starts /\ proc'[p].id = proc[p].id
    BY <1>0, <1>2, Stats DEF StatConfig, OpenConfig, WriteConfig, StatCert, StatKey
  <2>2. at[p] \in BeforeKey /\ at[p] \notin Idle
    BY <1>2 DEF StatConfig, OpenConfig, WriteConfig, WritingConfig, StatCert, StatKey,
       BeforeKey, Idle
  <2> QED
    BY <1>0, <2>1, <2>2
<1>3. CASE \E f \in Files : Writing(p, f)
  <2>1. starts' = starts /\ proc' = proc
    BY <1>3 DEF Writing, Open, EncodeHead, EncodeTail
  <2>2. at[p] \notin Idle
    BY <1>3 DEF Writing, Open, EncodeHead, EncodeTail, Idle
  <2>3. at'[p] \in BeforeKey => at[p] \in BeforeKey
    BY <1>0, <1>3 DEF Writing, Open, EncodeHead, EncodeTail, BeforeKey, Goto, Files
  <2> QED
    BY <1>0, <2>1, <2>2, <2>3
<1>4. CASE Load(p) \/ LoadCert(p)
  <2>1. starts' = starts /\ proc'[p].id = proc[p].id
    BY <1>0, <1>4 DEF Load, LoadCert, Remembered
  <2>2. at[p] \notin Idle
    BY <1>4 DEF Load, LoadCert, Idle
  <2>3. at'[p] \notin BeforeKey
    BY <1>0, <1>4 DEF Load, LoadCert, BeforeKey, Goto
  <2> QED
    BY <1>0, <2>1, <2>2, <2>3
<1>5. CASE Validate(p) \/ Listen(p) \/ LoadKey(p)
  <2>1. /\ starts' = starts
        /\ \/ proc'[p].id = proc[p].id
           \/ proc'[p].id = 0 /\ at'[p] = <<"off">>
    BY <1>0, <1>5 DEF Validate, Listen, LoadKey, Exits, Goto
  <2>2. at[p] \in {<<"validate">>, <<"listen">>, <<"loadKey">>}
    BY <1>5 DEF Validate, Listen, LoadKey
  <2>3. at'[p] \notin BeforeKey
    BY <1>0, <1>5 DEF Validate, Listen, LoadKey, Exits, BeforeKey, Goto
  <2>4. at[p] \notin Idle
    BY <2>2 DEF Idle
  <2>5. at'[p] \notin Idle => proc'[p].id = proc[p].id
    BY <2>1 DEF Idle
  <2>6. proc'[p].id <= starts'
    BY <1>0, <2>1
  <2> QED
    BY <1>0, <2>1, <2>3, <2>4, <2>5, <2>6
<1>6. CASE InitOnly(p) \/ Stop(p) \/ Dies(p)
  <2>1. starts' = starts /\ proc'[p].id = 0 /\ at'[p] = <<"off">>
    BY <1>0, <1>6 DEF InitOnly, Stop, Dies, Exits, Goto
  <2> QED
    BY <1>0, <2>1 DEF Idle, BeforeKey
<1> QED
  BY <1>1, <1>2, <1>3, <1>4, <1>5, <1>6 DEF ProcStep, InitAppDir, Run, Writing

\* How a step of p changes the head of the key file.
LEMMA KeyHead ==
  ASSUME NodeTypes, Opened, NEW p \in Procs, ProcStep(p)
  PROVE  \/ file'["key"] = file["key"]
         \/ file'["key"].head = Empty
         \/ file'["key"].head = proc[p].id /\ at[p] = <<"head", "key">> /\ proc' = proc
            /\ at'[p] = <<"tail", "key">>
         \/ file["key"] # Absent /\ file'["key"].head = file["key"].head
<1>0. "key" \in Files /\ Absent \notin Pems
  BY NodeConstants DEF Files
<1>1. CASE Writing(p, "key")
  <2>1. CASE Open(p, "key")
    BY <1>0, <2>1, Written DEF Blank
  <2>2. CASE EncodeHead(p, "key")
    BY <1>0, <1>1, <2>2, Written DEF EncodeHead
  <2>3. CASE EncodeTail(p, "key")
    BY <1>0, <2>3, Written
  <2> QED
    BY <1>1, <2>1, <2>2, <2>3 DEF Writing
<1>2. CASE Writing(p, "cert")
  BY <1>0, <1>2, Written DEF Files
<1>3. CASE \A f \in Files : ~Writing(p, f)
  BY <1>3, NotWritten
<1> QED
  BY <1>1, <1>2, <1>3 DEF Files

LEMMA NumbersStep ==
  ASSUME NodeTypes, NodeTypes', Opened, Numbers, NEW p \in Procs, ProcStep(p)
  PROVE  Numbers'
<1>0. /\ \A q \in Procs : q # p => at'[q] = at[q] /\ proc'[q] = proc[q]
      /\ \A q \in Procs : proc[q].id \in Nat /\ proc[q].id <= starts /\ proc[q].id # Empty
      /\ \A q \in Procs : proc'[q].id # Empty
      /\ \A q \in Procs : at[q] \in BeforeKey => at[q] \notin Idle
      /\ \A q \in Procs : Starting(q) <=> at[q] \notin Idle
      /\ \A q \in Procs : Starting(q)' <=> at'[q] \notin Idle
  BY Others, NodeConstants DEF NodeTypes, Remembered, Numbers, BeforeKey, Idle, Starting
<1>1. \A q \in Procs : proc'[q].id <= starts'
  BY <1>0, Advance
<1>2. \A q, r \in Procs : Starting(q)' /\ Starting(r)' /\ proc'[q].id = proc'[r].id => q = r
  <2>1. ASSUME NEW q \in Procs, q # p, Starting(q)', Starting(p)', proc'[q].id = proc'[p].id
        PROVE  FALSE
    <3>1. Starting(q) /\ proc[q].id = proc'[p].id
      BY <1>0, <2>1
    <3>2. Starting(p) /\ proc'[p].id = proc[p].id
      BY <1>0, <2>1, <3>1, Advance
    <3> QED
      BY <2>1, <3>1, <3>2 DEF Numbers
  <2>2. ASSUME NEW q \in Procs, NEW r \in Procs, q # p, r # p,
               Starting(q)', Starting(r)', proc'[q].id = proc'[r].id
        PROVE  q = r
    BY <1>0, <2>2 DEF Numbers
  <2> QED
    BY <2>1, <2>2
<1>3. file'["key"] = Absent \/ file'["key"].head = Empty \/ file'["key"].head <= starts'
  <2>1. /\ starts \in Nat /\ starts' \in Nat /\ starts <= starts'
    BY Advance
  <2>2. file["key"] # Absent => file["key"].head \in Nat \cup {Empty}
    BY DEF NodeTypes, Files, Pems, Parts
  <2> QED
    BY <1>0, <2>1, <2>2, KeyHead DEF Numbers
<1>4. ASSUME NEW q \in Procs, at'[q] \in BeforeKey
      PROVE  KeyNotMine(q)'
  <2>1. \/ at[q] \in BeforeKey /\ KeyNotMine(q) /\ proc'[q].id = proc[q].id
        \/ q = p /\ proc'[q].id = starts + 1 /\ UNCHANGED file
    BY <1>0, <1>4, Advance DEF Numbers, BeforeKey, Idle
  <2>2. CASE q = p /\ proc'[q].id = starts + 1 /\ UNCHANGED file
    <3>1. file["key"] # Absent => file["key"].head # starts + 1
      <4>1. starts \in Nat /\ starts + 1 # Empty
        BY <1>0, <2>2, Advance
      <4>2. file["key"] # Absent => file["key"].head \in Nat \cup {Empty}
        BY DEF NodeTypes, Files, Pems, Parts
      <4> QED
        BY <4>1, <4>2 DEF Numbers
    <3> QED
      BY <2>2, <3>1 DEF KeyNotMine
  <2>3. CASE at[q] \in BeforeKey /\ KeyNotMine(q) /\ proc'[q].id = proc[q].id
    <3>1. CASE file'["key"].head = proc[p].id /\ at[p] = <<"head", "key">> /\ proc' = proc
               /\ at'[p] = <<"tail", "key">>
      <4>1. q # p /\ Starting(q) /\ Starting(p)
        BY <1>0, <1>4, <2>3, <3>1 DEF BeforeKey, Idle
      <4> QED
        BY <3>1, <4>1 DEF Numbers, KeyNotMine
    <3> QED
      BY <1>0, <2>3, <3>1, KeyHead DEF KeyNotMine
  <2> QED
    BY <2>1, <2>2, <2>3
<1> QED
  BY <1>1, <1>2, <1>3, <1>4 DEF Numbers

-----------------------------------------------------------------------------
(* The files of the node: steps that decide                                *)

\* The step of a process that writes: it is the only one that starts.
LEMMA PairByWriting ==
  ASSUME NodeTypes, NodeTypes', Opened, Numbers, Alone, \A q \in Procs : Stage(q),
         NEW p \in Procs, NEW f \in Files, ProcStep(p), Writing(p, f)
  PROVE  /\ \A q \in Procs : Stage(q)'
         /\ Paired => at[p] = <<"open", "cert">> /\ proc[p].unseen \cap Files # {}
         /\ torn' = torn /\ failed' = failed
         /\ Rewriting(p)' \/ (at'[p] = <<"inited">> /\ Paired')
         /\ \A q \in Procs : q # p => at'[q] \in Idle
<1>0. /\ \A q \in Procs : q # p => at'[q] = at[q] /\ proc'[q] = proc[q]
      /\ proc' = proc /\ \A g \in Files : g # f => file'[g] = file[g]
      /\ torn' = torn /\ failed' = failed
      /\ Files = {"cert", "key"} /\ "cert" \in Files /\ "key" \in Files
      /\ proc[p].id \in 0..MaxStarts /\ proc[p].id # Empty
      /\ Absent \notin Pems /\ \A g \in Files : file'[g] \in Pems \cup {Absent}
      /\ Stage(p)
  BY Others, Written, NodeConstants DEF Files, NodeTypes, Remembered, pastVars
<1>1. Generating(p) /\ at[p] \in {<<"open", f>>, <<"head", f>>, <<"tail", f>>}
  BY DEF Writing, Open, EncodeHead, EncodeTail, Generating
<1>2. \A q \in Procs : q # p => at'[q] \in Idle
  BY <1>0, <1>1, StepNames DEF Alone
<1>3. \A q \in Procs : q # p => Stage(q)'
  BY <1>2 DEF Stage, Idle
<1>4. CASE Open(p, f)
  <2>1. file'[f] = Blank /\ at'[p] = <<"head", f>> /\ at[p] = <<"open", f>>
    BY <1>4, Written DEF Open
  <2>2. Stage(p)'
    BY <1>0, <2>1 DEF Stage
  <2>3. Paired => at[p] = <<"open", "cert">> /\ proc[p].unseen \cap Files # {}
    <3>1. CASE f = "cert"
      BY <1>0, <2>1, <3>1 DEF Stage, Paired, Usable
    <3>2. CASE f = "key"
      <4>1. file["cert"] = Whole(proc[p].id) /\ at[p] = <<"open", "key">>
        BY <1>0, <2>1, <3>2 DEF Stage
      <4>2. KeyNotMine(p)
        BY <4>1 DEF Numbers, BeforeKey
      <4> QED
        BY <4>1, <4>2 DEF Paired, Usable, KeyNotMine, Whole
    <3> QED
      BY <1>0, <3>1, <3>2
  <2> QED
    BY <1>0, <1>2, <1>3, <2>1, <2>2, <2>3 DEF Rewriting, Generating
<1>5. CASE EncodeHead(p, f)
  <2>1. /\ at[p] = <<"head", f>> /\ at'[p] = <<"tail", f>> /\ file[f] = Blank
        /\ file'[f] \in Pems /\ file'[f].head = proc[p].id /\ file'[f].tail = file[f].tail
    <3>1. at[p] = <<"head", f>>
      BY <1>5 DEF EncodeHead
    <3>2. file[f] = Blank
      BY <1>0, <3>1 DEF Stage
    <3> QED
      BY <1>5, <3>1, <3>2, Written
  <2>2. file'[f] = Begun(proc[p].id)
    BY <2>1 DEF Pems, Begun, Blank
  <2>3. Stage(p)'
    BY <1>0, <2>1, <2>2 DEF Stage
  <2>4. ~Paired
    BY <1>0, <2>1 DEF Paired, Usable, Blank
  <2> QED
    BY <1>0, <1>2, <1>3, <2>1, <2>3, <2>4 DEF Rewriting, Generating
<1>6. CASE EncodeTail(p, f)
  <2>1. /\ at[p] = <<"tail", f>> /\ file[f] = Begun(proc[p].id)
        /\ at'[p] = IF f = "cert" THEN <<"open", "key">> ELSE <<"inited">>
        /\ file'[f] \in Pems /\ file'[f].tail = proc[p].id /\ file'[f].head = file[f].head
    <3>1. at[p] = <<"tail", f>>
      BY <1>6 DEF EncodeTail
    <3>2. file[f] = Begun(proc[p].id)
      BY <1>0, <3>1 DEF Stage
    <3> QED
      BY <1>6, <3>1, <3>2, Written
  <2>2. file'[f] = Whole(proc[p].id)
    BY <2>1 DEF Pems, Begun, Whole
  <2>3. Stage(p)'
    BY <1>0, <2>1, <2>2 DEF Stage
  <2>4. ~Paired
    BY <1>0, <2>1 DEF Paired, Usable, Begun
  <2>5. Rewriting(p)' \/ (at'[p] = <<"inited">> /\ Paired')
    <3>1. CASE f = "cert"
      BY <2>1, <3>1 DEF Rewriting, Generating
    <3>2. CASE f = "key"
      <4>1. file'["cert"] = Whole(proc[p].id) /\ file'["key"] = Whole(proc[p].id)
        BY <1>0, <2>1, <2>2, <3>2 DEF Stage
      <4>2. Whole(proc[p].id) \in Pems
        BY <1>0, <2>2, <2>1
      <4> QED
        BY <1>0, <2>1, <3>2, <4>1, <4>2 DEF Paired, Usable, Whole
    <3> QED
      BY <1>0, <3>1, <3>2
  <2> QED
    BY <1>0, <1>2, <1>3, <2>3, <2>4, <2>5
<1> QED
  BY <1>4, <1>5, <1>6 DEF Writing

\* The step of a process that writes nothing keeps what the processes know.
LEMMA StagesKept ==
  ASSUME NodeTypes, \A q \in Procs : Stage(q), UNCHANGED file,
         NEW p \in Procs, ProcStep(p), \A f \in Files : ~Writing(p, f)
  PROVE  \A q \in Procs : Stage(q)'
<1>0. /\ at \in [Procs -> Steps] /\ proc \in [Procs -> Remembered]
      /\ \A q \in Procs : q # p => at'[q] = at[q] /\ proc'[q] = proc[q]
  BY Others DEF NodeTypes
<1>1. \A q \in Procs : q # p => Stage(q)'
  BY <1>0 DEF Stage
<1>2. CASE StatCert(p)
  <2>1. /\ at'[p] = <<"statKey">>
        /\ IF proc'[p].seen THEN file["cert"] # Absent
           ELSE file["cert"] = Absent \/ "cert" \in proc'[p].unseen
    BY <1>0, <1>2, Stats DEF StatCert, Goto
  <2> QED
    BY <1>1, <2>1 DEF Stage
<1>3. CASE StatKey(p)
  <2>1. /\ at[p] = <<"statKey">> /\ Stage(p)
        /\ at'[p] \in {<<"inited">>, <<"open", "cert">>}
        /\ proc[p].unseen \subseteq proc'[p].unseen
    BY <1>3, Stats DEF StatKey
  <2>2. at'[p] = <<"open", "cert">> => \/ file["cert"] = Absent \/ file["key"] = Absent
                                      \/ proc'[p].unseen \cap Files # {}
    BY <1>3, <2>1, Stats DEF Stage, Files
  <2> QED
    BY <1>1, <2>1, <2>2 DEF Stage
<1>4. CASE LoadCert(p)
  <2>1. at'[p] = <<"loadKey">> /\ proc'[p].got = file["cert"]
    BY <1>0, <1>4 DEF LoadCert, Goto, Remembered
  <2> QED
    BY <1>1, <2>1 DEF Stage
<1>5. CASE at'[p] \in {<<"off">>, <<"statConfig">>, <<"openConfig">>, <<"writeConfig">>,
                       <<"statCert">>, <<"inited">>, <<"validate">>, <<"listen">>,
                       <<"loadCert">>, <<"serving">>}
  BY <1>1, <1>5 DEF Stage
<1>6. \/ StatCert(p) \/ StatKey(p) \/ LoadCert(p)
      \/ at'[p] \in {<<"off">>, <<"statConfig">>, <<"openConfig">>, <<"writeConfig">>,
                     <<"statCert">>, <<"inited">>, <<"validate">>, <<"listen">>,
                     <<"loadCert">>, <<"serving">>}
  BY <1>0 DEF ProcStep, Writing, InitAppDir, Start, StatConfig, OpenConfig, WriteConfig,
     Run, InitOnly, Load, Validate, Listen, LoadKey, Stop, Exits, Dies, Goto
<1> QED
  BY <1>2, <1>3, <1>4, <1>5, <1>6

\* Nor does it make the files unsound, but for a death that is recorded.
LEMMA SoundKept ==
  ASSUME NodeTypes, Alone, \A q \in Procs : Stage(q), Sound, UNCHANGED file,
         NEW p \in Procs, ProcStep(p), \A f \in Files : ~Writing(p, f)
  PROVE  torn' \/ Sound'
<1>0. /\ at \in [Procs -> Steps] /\ proc \in [Procs -> Remembered]
      /\ \A q \in Procs : q # p => at'[q] = at[q] /\ proc'[q] = proc[q]
      /\ Paired' <=> Paired
      /\ file'["cert"] = file["cert"] /\ file'["key"] = file["key"]
      /\ Files = {"cert", "key"} /\ Stage(p)
  BY Others DEF NodeTypes, Paired, Usable, Files
<1>1. at[p] \in Later => Paired
  BY DEF Sound
<1>2. CASE Dies(p)
  <2>1. at'[p] = <<"off">> /\ failed' = failed
    BY <1>0, <1>2 DEF Dies, Goto
  <2>2. CASE Rewriting(p)
    <3>1. torn' \/ Absent \in {file[f] : f \in Files}
      BY <1>0, <1>2, <2>2 DEF Dies, Rewriting
    <3>2. \A q \in Procs : at'[q] \in Later => Paired
      BY <1>0, <2>1 DEF Sound, Later
    <3> QED
      BY <1>0, <2>1, <3>1, <3>2 DEF Sound
  <2>3. CASE ~Rewriting(p)
    <3>1. (\E q \in Procs : Rewriting(q)) => (\E q \in Procs : Rewriting(q)')
      BY <1>0, <2>3 DEF Rewriting, Generating
    <3>2. \A q \in Procs : at'[q] \in Later => Paired
      BY <1>0, <2>1 DEF Sound, Later
    <3> QED
      BY <1>0, <2>1, <3>1, <3>2 DEF Sound
  <2> QED
    BY <2>2, <2>3
<1>3. CASE ~Dies(p)
  <2>1. ~Generating(p)
    <3>1. at[p] \notin Encoding
      <4>1. CASE InitAppDir(p)
        BY <4>1 DEF Writing, InitAppDir, Start, StatConfig, OpenConfig, WriteConfig,
           WritingConfig, StatCert, StatKey, Encoding
      <4>2. CASE Run(p)
        <5>1. at[p] \in Later \/ at[p] = <<"serving">>
          BY <4>2 DEF Run, InitOnly, Load, Validate, Listen, LoadCert, LoadKey, Stop, Later
        <5> QED
          BY <5>1 DEF Later, Encoding
      <4> QED
        BY <1>3, <4>1, <4>2 DEF ProcStep
    <3> QED
      BY <3>1, StepNames
  <2>2. (\E q \in Procs : Rewriting(q)) => (\E q \in Procs : Rewriting(q)')
    BY <1>0, <2>1 DEF Rewriting, Generating
  <2>3. at'[p] \in Later => Paired
    <3>1. CASE StatKey(p) /\ at'[p] = <<"inited">>
      <4>1. /\ at[p] = <<"statKey">>
            /\ file["cert"] # Absent /\ file["key"] # Absent
        <5>1. at[p] = <<"statKey">>
          BY <3>1 DEF StatKey
        <5>2. <<"inited">> # <<"open", "cert">>
          OBVIOUS
        <5>3. proc[p].seen /\ file["key"] # Absent
          BY <3>1, <5>2, Stats
        <5> QED
          BY <1>0, <5>1, <5>3 DEF Stage
      <4>2. Starting(p)
        BY <4>1 DEF Starting
      <4>3. \A q \in Procs : ~Generating(q)
        BY <2>1, <4>2 DEF Alone
      <4> QED
        BY <1>0, <4>1, <4>3 DEF Sound, Rewriting
    <3>2. CASE at[p] \in Later
      BY <1>1, <3>2
    <3>3. \/ at'[p] \notin Later \/ at[p] \in Later
          \/ StatKey(p) /\ at'[p] = <<"inited">>
      BY <1>0, <1>3 DEF ProcStep, Writing, InitAppDir, Start, StatConfig, OpenConfig,
         WriteConfig, StatCert, StatKey, Run, InitOnly, Load, Validate, Listen, LoadCert,
         LoadKey, Stop, Exits, Goto, Later
    <3> QED
      BY <3>1, <3>2, <3>3
  <2>4. ~failed'
    <3>1. ~failed
      BY DEF Sound
    <3>2. CASE Validate(p)
      <4>1. Absent \notin {file[f] : f \in Files}
        BY <1>0, <1>1, <3>2 DEF Validate, Later, Paired, Usable
      <4> QED
        BY <3>1, <3>2, <4>1 DEF Validate
    <3>3. CASE LoadKey(p)
      <4>1. Usable(proc[p].got, file["key"])
        BY <1>0, <1>1, <3>3 DEF LoadKey, Later, Paired, Stage
      <4> QED
        BY <3>1, <3>3, <4>1 DEF LoadKey
    <3> QED
      BY <1>3, <3>1, <3>2, <3>3 DEF ProcStep, Writing, InitAppDir, Start, StatConfig,
         OpenConfig, WriteConfig, StatCert, StatKey, Run, InitOnly, Load, Listen, LoadCert,
         Stop, Exits, pastVars
  <2>5. \A q \in Procs : at'[q] \in Later => Paired
    BY <1>0, <2>3 DEF Sound
  <2> QED
    BY <1>0, <2>2, <2>4, <2>5 DEF Sound
<1> QED
  BY <1>2, <1>3

LEMMA PairStep ==
  ASSUME NodeTypes, NodeTypes', Opened, Numbers, PairInv, NEW p \in Procs, ProcStep(p),
         raced' = (raced \/ Overlap(Generating)')
  PROVE  PairInv'
<1> SUFFICES ASSUME ~raced'
             PROVE  PairInv'
  BY DEF PairInv
<1>1. ~raced /\ Alone /\ (\A q \in Procs : Stage(q)) /\ (torn \/ Sound)
  BY DEF PairInv
<1>2. Alone'
  BY DEF Alone, Overlap
<1>3. CASE \E f \in Files : Writing(p, f)
  <2>1. PICK f \in Files : Writing(p, f)
    BY <1>3
  <2>2. /\ \A q \in Procs : Stage(q)'
        /\ torn' = torn /\ failed' = failed
        /\ Rewriting(p)' \/ (at'[p] = <<"inited">> /\ Paired')
        /\ \A q \in Procs : q # p => at'[q] \in Idle
    BY <1>1, <2>1, PairByWriting
  <2>3. Rewriting(p)' => at'[p] \notin Later
    BY DEF Rewriting, Generating, Later
  <2>4. \A q \in Procs : at'[q] \in Later => Paired'
    BY <2>2, <2>3 DEF Idle, Later
  <2>5. torn' \/ Sound'
    BY <1>1, <2>2, <2>4 DEF Sound
  <2> QED
    BY <1>2, <2>2, <2>5 DEF PairInv
<1>4. CASE \A f \in Files : ~Writing(p, f)
  <2>1. UNCHANGED file
    BY <1>4, NotWritten
  <2>2. \A q \in Procs : Stage(q)'
    BY <1>1, <1>4, <2>1, StagesKept
  <2>3. torn => torn'
    BY DEF ProcStep, InitAppDir, Start, StatConfig, OpenConfig, WriteConfig, StatCert,
       StatKey, Open, EncodeHead, EncodeTail, Run, InitOnly, Load, Validate, Listen, LoadCert,
       LoadKey, Stop, Dies, pastVars
  <2>4. torn' \/ Sound'
    BY <1>1, <1>4, <2>1, <2>3, SoundKept
  <2> QED
    BY <1>2, <2>2, <2>4 DEF PairInv
<1> QED
  BY <1>3, <1>4

\* The configuration read is never the empty one.
LEMMA ConfigStep ==
  ASSUME NodeTypes, ConfigInv, NEW p \in Procs, ProcStep(p),
         cfgFault' = (\/ cfgFault \/ Overlap(WritingConfig)'
                      \/ \E q \in Procs : WritingConfig(q) /\ at'[q] = <<"off">>)
  PROVE  ConfigInv'
<1> SUFFICES ASSUME ~cfgFault'
             PROVE  ConfigInv'
  BY DEF ConfigInv
<1>0. /\ at \in [Procs -> Steps] /\ proc \in [Procs -> Remembered]
      /\ \A q \in Procs : q # p => at'[q] = at[q] /\ proc'[q] = proc[q]
      /\ Absent # "builtin" /\ Empty # "default" /\ config \in Configs
  BY Others, NodeConstants DEF NodeTypes
<1>1. /\ \A q, r \in Procs : WritingConfig(q) /\ Starting(r) => q = r
      /\ config = Empty => \E q \in Procs : WritingConfig(q)
      /\ \A q \in Procs : proc[q].cfg # "builtin"
      /\ ~(WritingConfig(p) /\ at'[p] = <<"off">>)
  BY DEF ConfigInv
<1>2. \A q, r \in Procs : WritingConfig(q)' /\ Starting(r)' => q = r
  BY DEF Overlap
<1>3. config' = Empty => \E q \in Procs : WritingConfig(q)'
  <2>1. CASE OpenConfig(p)
    BY <1>0, <2>1 DEF OpenConfig, WritingConfig, Goto
  <2>2. CASE WriteConfig(p)
    BY <1>0, <2>2 DEF WriteConfig
  <2>3. CASE UNCHANGED config /\ ~OpenConfig(p) /\ ~WriteConfig(p)
    <3>1. WritingConfig(p) => at'[p] = <<"off">>
      <4>1. CASE InitAppDir(p)
        BY <2>3, <4>1 DEF InitAppDir, WritingConfig, Start, StatConfig, StatCert, StatKey,
           Open, EncodeHead, EncodeTail
      <4>2. CASE Run(p)
        BY <4>2 DEF Run, WritingConfig, InitOnly, Load, Validate, Listen, LoadCert, LoadKey,
           Stop
      <4>3. CASE Dies(p)
        BY <1>0, <4>3 DEF Dies, Goto
      <4> QED
        BY <4>1, <4>2, <4>3 DEF ProcStep
    <3>2. ~WritingConfig(p)
      BY <1>1, <3>1
    <3> QED
      BY <1>0, <1>1, <2>3, <3>2 DEF WritingConfig
  <2> QED
    BY <2>1, <2>2, <2>3 DEF ProcStep, InitAppDir, Start, StatConfig, StatCert, StatKey, Open,
       EncodeHead, EncodeTail, Run, InitOnly, Load, Validate, Listen, LoadCert, LoadKey, Stop,
       Dies, fileVars
<1>4. \A q \in Procs : proc'[q].cfg # "builtin"
  <2>1. CASE Load(p)
    <3>1. at[p] = <<"inited">> /\ Starting(p) /\ ~WritingConfig(p)
      BY <2>1 DEF Load, Starting, WritingConfig
    <3>2. config # Empty
      BY <1>1, <3>1
    <3>3. Unmarshal(config) # "builtin"
      BY <1>0, <3>2 DEF Unmarshal, Configs
    <3>4. proc'[p].cfg = Unmarshal(config)
      BY <1>0, <2>1 DEF Load, Remembered
    <3> QED
      BY <1>0, <1>1, <3>3, <3>4
  <2>2. CASE Start(p)
    BY <1>0, <1>1, <2>2 DEF Start, Fresh
  <2>3. CASE StatConfig(p) \/ StatCert(p) \/ StatKey(p)
    BY <1>0, <1>1, <2>3, Stats
  <2>5. CASE LoadCert(p)
    BY <1>0, <1>1, <2>5 DEF LoadCert, Remembered
  <2>4. CASE proc' = proc \/ proc' = [proc EXCEPT ![p] = Fresh]
    BY <1>0, <1>1, <2>4 DEF Fresh
  <2> QED
    BY <2>1, <2>2, <2>3, <2>4, <2>5 DEF ProcStep, InitAppDir, OpenConfig, WriteConfig, Open,
       EncodeHead, EncodeTail, Run, InitOnly, Validate, Listen, LoadKey, Stop, Exits, Dies
<1> QED
  BY <1>2, <1>3, <1>4 DEF ConfigInv

\* A process that did not see the operator's configuration has that recorded.
LEMMA OwnStep ==
  ASSUME NodeTypes, Own, NEW p \in Procs, ProcStep(p)
  PROVE  /\ Own'
         /\ config = "own" =>
               \/ config' = "own"
               \/ at[p] = <<"openConfig">> /\ "config" \in proc[p].unseen
<1>0. /\ at \in [Procs -> Steps] /\ Absent # "own" /\ Empty # "own"
      /\ \A q \in Procs : q # p => at'[q] = at[q] /\ proc'[q] = proc[q]
  BY Others, NodeConstants DEF NodeTypes
<1>1. CASE OpenConfig(p)
  BY <1>0, <1>1 DEF OpenConfig, Own
<1>2. CASE WriteConfig(p)
  BY <1>0, <1>2 DEF WriteConfig, Own
<1>3. CASE ~OpenConfig(p) /\ ~WriteConfig(p)
  <2>1. config' = config
    BY <1>3 DEF ProcStep, InitAppDir, Start, StatConfig, StatCert, StatKey, Open, EncodeHead,
       EncodeTail, Run, InitOnly, Load, Validate, Listen, LoadCert, LoadKey, Stop, Dies, fileVars
  <2>2. /\ at'[p] # <<"writeConfig">>
        /\ at'[p] = <<"openConfig">> => StatConfig(p)
    BY <1>0, <1>3 DEF ProcStep, InitAppDir, Start, StatConfig, StatCert, StatKey, Open,
       EncodeHead, EncodeTail, Run, InitOnly, Load, Validate, Listen, LoadCert, LoadKey, Stop,
       Exits, Dies, Goto
  <2>3. config = "own" /\ at'[p] = <<"openConfig">> => "config" \in proc'[p].unseen
    BY <1>0, <2>2, Stats
  <2> QED
    BY <1>0, <2>1, <2>2, <2>3 DEF Own, WritingConfig
<1> QED
  BY <1>1, <1>2, <1>3

\* The operator makes a new beginning: a file is gone, and nobody starts.
LEMMA RemoveStep ==
  ASSUME NodeInv, NEW f \in Files, Remove(f), NodeNext
  PROVE  NodeInv'
<1>0. /\ at \in [Procs -> Steps] /\ proc \in [Procs -> Remembered]
      /\ file \in [Files -> Pems \cup {Absent}] /\ removed \in Nat
      /\ starts \in 0..MaxStarts /\ config \in Configs
  BY DEF NodeInv, NodeTypes
<1>1. /\ removed' = removed + 1 /\ raced' = FALSE /\ torn' = FALSE /\ failed' = FALSE
      /\ UNCHANGED <<config, at, proc, starts>>
      /\ \A p \in Procs : at[p] \in Idle
      /\ file'[f] = Absent /\ \A g \in Files : g # f => file'[g] = file[g]
      /\ file' \in [Files -> Pems \cup {Absent}]
  BY <1>0 DEF Remove, NodeNext, Starting, Idle
<1>2. NodeTypes'
  <2>1. cfgFault' \in BOOLEAN /\ removed' \in Nat
    BY <1>0, <1>1 DEF NodeNext
  <2> QED
    BY <1>0, <1>1, <2>1 DEF NodeTypes
<1>3. Opened'
  BY <1>1 DEF Opened, Idle
<1>4. Numbers'
  <2>1. \A p \in Procs : ~Starting(p)' /\ at'[p] \notin BeforeKey
    BY <1>1 DEF Starting, Idle, BeforeKey
  <2>2. file'["key"] = file["key"] \/ file'["key"] = Absent
    BY <1>1 DEF Files
  <2> QED
    BY <1>1, <2>1, <2>2 DEF NodeInv, Numbers
<1>5. PairInv'
  <2>1. \A p \in Procs : ~Generating(p)' /\ ~Starting(p)' /\ Stage(p)' /\ at'[p] \notin Later
    BY <1>1 DEF Generating, Starting, Stage, Idle, Later
  <2>2. Alone' /\ Sound'
    BY <1>1, <2>1 DEF Alone, Sound
  <2> QED
    BY <2>1, <2>2 DEF PairInv
<1>6. ConfigInv'
  BY <1>1 DEF NodeInv, NodeNext, ConfigInv, WritingConfig, Starting
<1> QED
  BY <1>1, <1>2, <1>3, <1>4, <1>5, <1>6 DEF NodeInv, Own, WritingConfig

\* The operator writes his configuration while nobody starts.
LEMMA ConfigureStep ==
  ASSUME NodeInv, Configure, NodeNext
  PROVE  NodeInv'
<1>1. /\ config' = "own" /\ UNCHANGED <<file, at, proc, starts, removed, torn, failed>>
      /\ \A p \in Procs : ~Starting(p)
  BY DEF Configure, pastVars
<1>2. \A p \in Procs : /\ at[p] \in Idle /\ ~Generating(p) /\ ~WritingConfig(p)
                       /\ at[p] # <<"openConfig">>
  BY <1>1 DEF Starting, Idle, Generating, WritingConfig
<1>3. raced' = raced /\ cfgFault' = cfgFault
  <2>1. raced \in BOOLEAN /\ cfgFault \in BOOLEAN
    BY DEF NodeInv, NodeTypes
  <2>2. ~Overlap(Generating)' /\ ~Overlap(WritingConfig)'
    BY <1>1, <1>2 DEF Overlap, Generating, WritingConfig
  <2> QED
    BY <1>1, <1>2, <2>1, <2>2 DEF NodeNext
<1>4. NodeTypes'
  BY <1>1, <1>3 DEF NodeInv, NodeTypes, Configs
<1>5. Opened' /\ Numbers' /\ PairInv'
  BY <1>1, <1>3 DEF NodeInv, Opened, Numbers, KeyNotMine, PairInv, Alone, Stage, Sound,
     Rewriting, Paired, Starting, Generating
<1>6. ConfigInv' /\ Own'
  BY <1>1, <1>2, <1>3, NodeConstants DEF NodeInv, ConfigInv, Own, WritingConfig, Starting
<1> QED
  BY <1>4, <1>5, <1>6 DEF NodeInv

LEMMA NodeInvStep ==
  NodeInv /\ [Next]_vars => NodeInv'
<1> SUFFICES ASSUME NodeInv, [Next]_vars
             PROVE  NodeInv'
  OBVIOUS
<1>1. CASE NodeNext
  <2>1. ASSUME NEW p \in Procs, ProcStep(p)
        PROVE  NodeInv'
    <3>0. NodeTypes /\ Opened /\ Numbers /\ PairInv /\ ConfigInv /\ Own
      BY DEF NodeInv
    <3>1. raced' = (raced \/ Overlap(Generating)')
      <4>1. removed' = removed
        BY <2>1 DEF ProcStep, InitAppDir, Start, StatConfig, OpenConfig, WriteConfig, StatCert,
           StatKey, Open, EncodeHead, EncodeTail, Run, InitOnly, Load, Validate, Listen,
           LoadCert, LoadKey, Stop, Dies
      <4> QED
        BY <1>1, <4>1 DEF NodeNext
    <3>2. cfgFault' = (\/ cfgFault \/ Overlap(WritingConfig)'
                       \/ \E q \in Procs : WritingConfig(q) /\ at'[q] = <<"off">>)
      BY <1>1 DEF NodeNext
    <3>3. NodeTypes'
      BY <2>1, <3>0, <3>1, <3>2, NodeTypesStep
    <3>4. Opened' /\ Numbers'
      BY <2>1, <3>0, <3>3, OpenedStep, NumbersStep
    <3>5. PairInv'
      BY <2>1, <3>0, <3>1, <3>3, PairStep
    <3>6. ConfigInv' /\ Own'
      BY <2>1, <3>0, <3>2, ConfigStep, OwnStep
    <3> QED
      BY <3>3, <3>4, <3>5, <3>6 DEF NodeInv
  <2>2. ASSUME NEW f \in Files, Remove(f)
        PROVE  NodeInv'
    BY <1>1, <2>2, RemoveStep
  <2>3. ASSUME Configure
        PROVE  NodeInv'
    BY <1>1, <2>3, ConfigureStep
  <2> QED
    BY <1>1, <2>1, <2>2, <2>3 DEF NodeNext, NodeStep, ProcStep
<1>2. CASE UNCHANGED <<fileVars, at, proc, starts, deaths, removed, raced, pastVars, cfgFault>>
  BY <1>2 DEF fileVars, pastVars, NodeInv, NodeTypes, Opened, Numbers, KeyNotMine, PairInv,
     ConfigInv, Own, Alone, Stage, Sound, Rewriting, Paired, Starting, Generating, WritingConfig
<1>3. CASE UNCHANGED vars
  BY <1>2, <1>3 DEF vars
<1> QED
  BY <1>1, <1>2, <1>3 DEF Next

\* The invariant of the files of a node.
THEOREM NodeInductive == Spec => []NodeInv
<1>1. Init => NodeInv
  <2> SUFFICES ASSUME Init
               PROVE  NodeInv
    OBVIOUS
  <2>1. NodeTypes
    <3>1. Fresh \in Remembered
      BY NodeConstants DEF Fresh, Remembered, InUse
    <3> QED
      BY <3>1, NodeConstants DEF Init, NodeTypes, Steps, Idle, Configs
  <2>2. \A p \in Procs : /\ at[p] = <<"off">> /\ proc[p] = Fresh
                         /\ ~Starting(p) /\ ~Generating(p) /\ ~WritingConfig(p)
    BY DEF Init, Starting, Generating, WritingConfig
  <2>3. Opened
    BY <2>2 DEF Opened
  <2>4. Numbers
    BY <2>2, NodeConstants DEF Init, Numbers, Files, BeforeKey, Fresh
  <2>5. PairInv
    BY <2>2 DEF Init, PairInv, Alone, Stage, Sound, Later, Files
  <2>6. ConfigInv /\ Own
    BY <2>2, NodeConstants DEF Init, ConfigInv, Own, Fresh
  <2> QED
    BY <2>1, <2>3, <2>4, <2>5, <2>6 DEF NodeInv
<1> QED
  BY <1>1, NodeInvStep, PTL DEF Spec

\* A start finds a usable certificate and key, unless an earlier one died
\* while it replaced a pair or two starts overlapped.
THEOREM StartsFindPair == Spec => []StartsUnlessTorn
<1>1. NodeInv => StartsUnlessTorn
  BY DEF NodeInv, PairInv, Sound, StartsUnlessTorn
<1> QED
  BY <1>1, NodeInductive, PTL

\* The built-in configuration is in use only after one of the recorded faults.
THEOREM BuiltinByFault == Spec => []BuiltinOnlyByFault
<1>1. NodeInv => BuiltinOnlyByFault
  BY DEF NodeInv, ConfigInv, BuiltinOnlyByFault
<1> QED
  BY <1>1, NodeInductive, PTL

\* A usable pair is not replaced, unless two starts overlapped, the operator
\* removed a file, or os.Stat failed on one that is there.
THEOREM CertificateIsKept == Spec => CertificateKept
<1>1. NodeInv /\ NodeInv' /\ [Next]_vars =>
        [Usable(file["cert"], file["key"]) =>
            \/ file' = file \/ raced' \/ removed' # removed
            \/ \E p \in Procs : /\ at[p] = <<"open", "cert">>
                                /\ proc[p].unseen \cap Files # {}]_vars
  <2> SUFFICES ASSUME NodeInv, NodeInv', Next, Paired, ~raced', removed' = removed
               PROVE  \/ file' = file
                      \/ \E p \in Procs : /\ at[p] = <<"open", "cert">>
                                          /\ proc[p].unseen \cap Files # {}
    BY DEF Paired, vars, fileVars
  <2>1. CASE UNCHANGED file
    BY <2>1
  <2>2. CASE NodeNext
    <3>1. ~raced
      BY <2>2 DEF NodeNext
    <3>2. ASSUME NEW f \in Files, Remove(f)
          PROVE  FALSE
      BY <3>2 DEF Remove, NodeInv, NodeTypes
    <3>3. CASE Configure
      BY <3>3 DEF Configure
    <3>4. ASSUME NEW p \in Procs, ProcStep(p)
          PROVE  \/ file' = file
                 \/ at[p] = <<"open", "cert">> /\ proc[p].unseen \cap Files # {}
      <4>1. CASE \A f \in Files : ~Writing(p, f)
        BY <3>4, <4>1, NotWritten
      <4>2. CASE \E f \in Files : Writing(p, f)
        BY <3>1, <3>4, <4>2, PairByWriting DEF NodeInv, PairInv
      <4> QED
        BY <4>1, <4>2
    <3> QED
      BY <2>2, <3>2, <3>3, <3>4 DEF NodeNext, NodeStep, ProcStep
  <2> QED
    BY <2>1, <2>2 DEF Next, fileVars
<1> QED
  BY <1>1, NodeInductive, PTL DEF Spec, CertificateKept

\* The operator's configuration is not replaced, however starts overlap or die,
\* unless os.Stat failed on it.
THEOREM ConfigIsKept == Spec => ConfigKept
<1>1. NodeInv /\ [Next]_vars =>
        [config = "own" =>
            \/ config' = "own"
            \/ \E p \in Procs : /\ at[p] = <<"openConfig">>
                                /\ "config" \in proc[p].unseen]_vars
  <2> SUFFICES ASSUME NodeInv, Next, config = "own"
               PROVE  \/ config' = "own"
                      \/ \E p \in Procs : /\ at[p] = <<"openConfig">>
                                          /\ "config" \in proc[p].unseen
    BY DEF vars, fileVars
  <2>1. ASSUME NEW p \in Procs, ProcStep(p)
        PROVE  \/ config' = "own"
               \/ at[p] = <<"openConfig">> /\ "config" \in proc[p].unseen
    BY <2>1, OwnStep DEF NodeInv
  <2>2. CASE UNCHANGED config \/ Configure
    BY <2>2 DEF Configure
  <2> QED
    BY <2>1, <2>2 DEF Next, NodeNext, NodeStep, ProcStep, Remove, fileVars
<1> QED
  BY <1>1, NodeInductive, PTL DEF Spec, ConfigKept

=============================================================================
