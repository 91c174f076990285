----------------------------- MODULE NodeFiles ------------------------------
(***************************************************************************)
(* The files of a node and the processes that start on them: appdir.Init   *)
(* with the default configuration and the self-signed certificate,         *)
(* config.Load, and router.Run up to the loading of the certificate.       *)
(* Processes are started and die at any point, two of them at once if the  *)
(* operator or a service manager does so.                                  *)
(*                                                                         *)
(* A PEM file is written in pieces: here a head and a tail, each the       *)
(* number of the pair it belongs to or Empty.  It is whole when both are   *)
(* of one pair.                                                            *)
(***************************************************************************)
EXTENDS KeyFile

CONSTANTS
    Procs,          \* processes of the daemon
    MaxStarts,      \* bound: starts of the daemon
    MaxDeaths,      \* bound: starts that die before they serve
    MaxRemoved      \* bound: removals of one file by the operator

ASSUME NodeAssumption == /\ {MaxStarts, MaxDeaths, MaxRemoved} \subseteq Nat
                         /\ {Absent, Empty} \cap (0..MaxStarts) = {}
                         /\ {Absent, Empty} \cap {"default", "builtin", "own"} = {}
                         /\ Absent \notin [head : 0..MaxStarts \cup {Empty},
                                           tail : 0..MaxStarts \cup {Empty}]

Files == {"cert", "key"}

VARIABLES
    config,     \* the configuration file: Absent, Empty, "default", or "own"
                \* when the operator has written it
    file,       \* file["cert"], file["key"]: Absent or head and tail
    at,         \* at[p]: the process's next step, <<"off">>, <<"serving">>
    proc,       \* proc[p]: what the process remembers
    starts,     \* starts so far; the number of the pair a start may generate
    deaths, removed,
    raced,      \* history: a pair was written while another process started
    torn,       \* history: a process died having broken or half written a pair
    failed,     \* history: a start has failed for want of a usable pair
    cfgFault    \* history: the default configuration was not written in one go

fileVars == <<config, file>>
pastVars == <<torn, failed>>
vars == <<fileVars, at, proc, starts, deaths, removed, raced, pastVars, cfgFault,
          keyVars>>

\* id: the number of its start; seen: the result of os.Stat on the
\* certificate; cfg: the configuration in use; got: the certificate read.
\* unseen is history: the files that were there when os.Stat failed.
Fresh == [id |-> 0, seen |-> FALSE, cfg |-> Absent, got |-> Absent, unseen |-> {}]

Init ==
    /\ config = Absent
    /\ file = [f \in Files |-> Absent]
    /\ at = [p \in Procs |-> <<"off">>]
    /\ proc = [p \in Procs |-> Fresh]
    /\ starts = 0 /\ deaths = 0 /\ removed = 0
    /\ raced = FALSE /\ torn = FALSE /\ failed = FALSE /\ cfgFault = FALSE
    /\ KeyInit

Starting(p)      == at[p] \notin {<<"off">>, <<"serving">>}
WritingConfig(p) == at[p] = <<"writeConfig">>
Generating(p)    == at[p][1] \in {"open", "head", "tail"}

\* tls.LoadX509KeyPair accepts c and k: both whole, and of one pair.
Usable(c, k) == /\ c # Absent /\ k # Absent
                /\ c = k /\ c.head = c.tail /\ c.head # Empty

Goto(p, step) == at' = [at EXCEPT ![p] = step]

\* Whether os.Stat on a file returns no error: never when the file is absent,
\* and perhaps not when it is there (an I/O error, a directory that may not be
\* searched).  The result is x; what it missed is recorded.
StatResults(content) == IF content = Absent THEN {FALSE} ELSE BOOLEAN
Missed(p, name, content, x) ==
    proc[p].unseen \cup (IF content # Absent /\ ~x THEN {name} ELSE {})

-----------------------------------------------------------------------------
(* appdir.Init                                                             *)

Start(p) ==
    /\ at[p] = <<"off">>
    /\ starts < MaxStarts
    /\ starts' = starts + 1
    /\ proc' = [proc EXCEPT ![p] = [Fresh EXCEPT !.id = starts + 1]]
    /\ Goto(p, <<"statConfig">>)
    /\ UNCHANGED <<fileVars, deaths, removed, pastVars>>

\* Mutant: err != nil is written for err == nil.
StatConfigInverted(p) ==
    /\ at[p] = <<"statConfig">>
    /\ \E x \in StatResults(config) :
          /\ Goto(p, IF x THEN <<"openConfig">> ELSE <<"statCert">>)
          /\ proc' = [proc EXCEPT ![p].unseen = Missed(p, "config", config, x)]
    /\ UNCHANGED <<fileVars, starts, deaths, removed, pastVars>>

\* ensureDefaultConfig: any error of os.Stat counts as a missing file.
StatConfig(p) ==
    /\ at[p] = <<"statConfig">>
    /\ \E x \in StatResults(config) :
          /\ Goto(p, IF x THEN <<"statCert">> ELSE <<"openConfig">>)
          /\ proc' = [proc EXCEPT ![p].unseen = Missed(p, "config", config, x)]
    /\ UNCHANGED <<fileVars, starts, deaths, removed, pastVars>>

\* writeDefaultConfig: os.WriteFile opens with O_TRUNC ...
OpenConfig(p) ==
    /\ at[p] = <<"openConfig">>
    /\ config' = Empty
    /\ Goto(p, <<"writeConfig">>)
    /\ UNCHANGED <<file, proc, starts, deaths, removed, pastVars>>

\* Mutant: the file is only created.
WriteConfigCreates(p) ==
    /\ WritingConfig(p)
    /\ Goto(p, <<"statCert">>)
    /\ UNCHANGED <<fileVars, proc, starts, deaths, removed, pastVars>>

\* ... and writes.
WriteConfig(p) ==
    /\ WritingConfig(p)
    /\ config' = "default"
    /\ Goto(p, <<"statCert">>)
    /\ UNCHANGED <<file, proc, starts, deaths, removed, pastVars>>

\* ensureCerts: certErr == nil, keyErr == nil; any error counts as missing.
StatCert(p) ==
    /\ at[p] = <<"statCert">>
    /\ \E x \in StatResults(file["cert"]) :
          proc' = [proc EXCEPT ![p].seen = x,
                               ![p].unseen = Missed(p, "cert", file["cert"], x)]
    /\ Goto(p, <<"statKey">>)
    /\ UNCHANGED <<fileVars, starts, deaths, removed, pastVars>>

\* Mutants: the certificate is taken for both files; keyErr != nil is written
\* for keyErr == nil.
PairExistsByCert(p, keySeen)   == proc[p].seen
PairExistsInverted(p, keySeen) == proc[p].seen /\ ~keySeen

\* The condition under which nothing is generated: both calls succeeded.
PairExists(p, keySeen) == proc[p].seen /\ keySeen

StatKey(p) ==
    /\ at[p] = <<"statKey">>
    /\ \E x \in StatResults(file["key"]) :
          /\ Goto(p, IF PairExists(p, x) THEN <<"inited">> ELSE <<"open", "cert">>)
          /\ proc' = [proc EXCEPT ![p].unseen = Missed(p, "key", file["key"], x)]
    /\ UNCHANGED <<fileVars, starts, deaths, removed, pastVars>>

\* generateSelfSignedCert: os.OpenFile with O_TRUNC, then pem.Encode; first
\* the certificate, then the key.
Open(p, f) ==
    /\ at[p] = <<"open", f>>
    /\ file' = [file EXCEPT ![f] = [head |-> Empty, tail |-> Empty]]
    /\ Goto(p, <<"head", f>>)
    /\ UNCHANGED <<config, proc, starts, deaths, removed, pastVars>>

EncodeHead(p, f) ==
    /\ at[p] = <<"head", f>>
    /\ file' = [file EXCEPT ![f].head = proc[p].id]
    /\ Goto(p, <<"tail", f>>)
    /\ UNCHANGED <<config, proc, starts, deaths, removed, pastVars>>

EncodeTail(p, f) ==
    /\ at[p] = <<"tail", f>>
    /\ file' = [file EXCEPT ![f].tail = proc[p].id]
    /\ Goto(p, IF f = "cert" THEN <<"open", "key">> ELSE <<"inited">>)
    /\ UNCHANGED <<config, proc, starts, deaths, removed, pastVars>>

InitAppDir(p) ==
    \/ Start(p) \/ StatConfig(p) \/ OpenConfig(p) \/ WriteConfig(p)
    \/ StatCert(p) \/ StatKey(p)
    \/ \E f \in Files : Open(p, f) \/ EncodeHead(p, f) \/ EncodeTail(p, f)

-----------------------------------------------------------------------------
(* run                                                                     *)

\* The process ends; an exit status of 1 for want of a pair is recorded.
Exits(p, bad) ==
    /\ Goto(p, <<"off">>)
    /\ proc' = [proc EXCEPT ![p] = Fresh]
    /\ failed' = (failed \/ bad)

\* The flag -init: nothing more to do.
InitOnly(p) ==
    /\ at[p] = <<"inited">>
    /\ Exits(p, FALSE)
    /\ UNCHANGED <<fileVars, starts, deaths, removed, torn>>

\* yaml.Unmarshal overwrites what the file names and leaves the rest of
\* Default(): all of it when the file is empty.
Unmarshal(c) == IF c = Empty THEN "builtin" ELSE c

\* config.Load up to Validate; the paths are those of the application
\* directory in either case.
Load(p) ==
    /\ at[p] = <<"inited">>
    /\ proc' = [proc EXCEPT ![p].cfg = Unmarshal(config)]
    /\ Goto(p, <<"validate">>)
    /\ UNCHANGED <<fileVars, starts, deaths, removed, pastVars>>

\* Of the files Validate asks only whether they exist.
Validate(p) ==
    /\ at[p] = <<"validate">>
    /\ IF Absent \in {file[f] : f \in Files}
       THEN Exits(p, TRUE)
       ELSE Goto(p, <<"listen">>) /\ UNCHANGED <<proc, failed>>
    /\ UNCHANGED <<fileVars, starts, deaths, removed, torn>>

\* net.Listen, which one process at a time can do; before the certificate is
\* loaded.
Listen(p) ==
    /\ at[p] = <<"listen">>
    /\ IF \E q \in Procs : at[q][1] \in {"loadCert", "loadKey", "serving"}
       THEN Exits(p, FALSE)
       ELSE Goto(p, <<"loadCert">>) /\ UNCHANGED <<proc, failed>>
    /\ UNCHANGED <<fileVars, starts, deaths, removed, torn>>

\* buildTLSConfig: LoadX509KeyPair reads the certificate, then the key.
LoadCert(p) ==
    /\ at[p] = <<"loadCert">>
    /\ proc' = [proc EXCEPT ![p].got = file["cert"]]
    /\ Goto(p, <<"loadKey">>)
    /\ UNCHANGED <<fileVars, starts, deaths, removed, pastVars>>

LoadKey(p) ==
    /\ at[p] = <<"loadKey">>
    /\ IF Usable(proc[p].got, file["key"])
       THEN Goto(p, <<"serving">>) /\ UNCHANGED <<proc, failed>>
       ELSE Exits(p, TRUE)
    /\ UNCHANGED <<fileVars, starts, deaths, removed, torn>>

\* A signal ends a process that serves.
Stop(p) ==
    /\ at[p] = <<"serving">>
    /\ Exits(p, FALSE)
    /\ UNCHANGED <<fileVars, starts, deaths, removed, torn>>

Run(p) == \/ InitOnly(p) \/ Load(p) \/ Validate(p) \/ Listen(p)
          \/ LoadCert(p) \/ LoadKey(p) \/ Stop(p)

-----------------------------------------------------------------------------
(* The environment                                                         *)

\* A starting process is killed, or exits with status 1 because a file
\* operation failed: any but the calls of os.Stat above, whose errors are taken
\* for missing files.
Dies(p) ==
    /\ Starting(p)
    /\ deaths < MaxDeaths
    /\ deaths' = deaths + 1
    /\ Goto(p, <<"off">>)
    /\ proc' = [proc EXCEPT ![p] = Fresh]
    /\ torn' = (torn \/ /\ Generating(p) /\ at[p] # <<"open", "cert">>
                        /\ Absent \notin {file[f] : f \in Files})
    /\ UNCHANGED <<fileVars, starts, removed, failed>>

\* The operator removes one of the two files while no process is starting,
\* to have them made anew.
Remove(f) ==
    /\ removed < MaxRemoved
    /\ file[f] # Absent
    /\ \A p \in Procs : ~Starting(p)
    /\ file' = [file EXCEPT ![f] = Absent]
    /\ removed' = removed + 1
    /\ torn' = FALSE /\ failed' = FALSE
    /\ UNCHANGED <<config, at, proc, starts, deaths>>

\* The operator writes a configuration of his own, with the default paths,
\* while no process is starting.
Configure ==
    /\ config # "own"
    /\ \A p \in Procs : ~Starting(p)
    /\ config' = "own"
    /\ UNCHANGED <<file, at, proc, starts, deaths, removed, pastVars>>

-----------------------------------------------------------------------------

\* Whether another process is starting while one writes.
Overlap(Writes(_)) ==
    \E p, q \in Procs : p # q /\ Writes(p) /\ Starting(q)

NodeStep ==
    \/ \E p \in Procs : InitAppDir(p) \/ Run(p) \/ Dies(p)
    \/ \E f \in Files : Remove(f)
    \/ Configure

NodeNext ==
    /\ NodeStep
    /\ raced' = IF removed' # removed THEN FALSE
                ELSE raced \/ Overlap(Generating)'
    /\ cfgFault' = (\/ cfgFault \/ Overlap(WritingConfig)'
                    \/ \E p \in Procs : WritingConfig(p) /\ at'[p] = <<"off">>)

Next == \/ NodeNext /\ UNCHANGED keyVars
        \/ KeyNext /\ UNCHANGED <<fileVars, at, proc, starts, deaths, removed,
                                  raced, pastVars, cfgFault>>

Spec == Init /\ [][Next]_vars

-----------------------------------------------------------------------------
(* Properties                                                              *)

\* Every start finds a usable certificate and key, whatever earlier starts
\* died of and whichever file the operator has removed, except after one of
\* two faults: a process died when it had begun to replace a pair of which
\* both files exist, which ensureCerts takes for a pair, or a process
\* generated one while another was starting.  Removing either file repairs
\* both.
StartsUnlessTorn == failed => torn \/ raced

\* A usable pair is not replaced: clients that trust the certificate go on
\* doing so until the operator removes a file, unless two starts overlapped, or
\* os.Stat failed on one of the files: then one start by itself replaces it.
CertificateKept ==
    [][Usable(file["cert"], file["key"]) =>
          \/ file' = file \/ raced' \/ removed' # removed
          \/ \E p \in Procs : /\ at[p] = <<"open", "cert">>
                              /\ proc[p].unseen \cap Files # {}]_vars

\* The operator's configuration is not replaced by the default one, whatever
\* starts overlap or die, unless os.Stat failed on it.
ConfigKept ==
    [][config = "own" =>
          \/ config' = "own"
          \/ \E p \in Procs : /\ at[p] = <<"openConfig">>
                              /\ "config" \in proc[p].unseen]_vars

\* A process that serves has the settings of the configuration file: it runs
\* on the built-in ones, which name another server and log more, only if the
\* default file was left empty by a process that died, or was being written by
\* another when this one started.
BuiltinOnlyByFault ==
    \A p \in Procs : at[p] = <<"serving">> /\ proc[p].cfg = "builtin" => cfgFault

=============================================================================
