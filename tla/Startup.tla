------------------------------ MODULE Startup ------------------------------
(***************************************************************************)
(* How the gateway comes by its contracts.  With a lifespan (app.py) the   *)
(* process loads the directory before it serves, and does not serve if     *)
(* that fails.  An application whose lifespan is not run, a mounted or a   *)
(* test one, loads it in the first request that needs it; that dependency  *)
(* (dependencies.py) is not a coroutine and runs in a thread, so several   *)
(* requests may load at once.  load_contracts (loader.py) lists the        *)
(* directory and then opens one file after another, while a deployment may *)
(* change them.                                                            *)
(***************************************************************************)
EXTENDS ContractSchema, FiniteSets

CONSTANTS
  File,         \* the names a contract file may have
  Rank,         \* Rank[f]: the place of f when names are sorted
  YmlFile,      \* those that end in .yml; the others end in .yaml
  Document,     \* what a file may hold: a value, or the exception of yaml
  Worker,       \* the threads that serve requests
  MaxDeploys    \* bound: changes to the directory

Main == "main"

ASSUME FilesAssumption ==
  /\ IsFiniteSet(File) /\ YmlFile \subseteq File
  /\ Rank \in [File -> Nat]
  /\ \A f, g \in File : Rank[f] = Rank[g] => f = g

ASSUME StartupAssumption == Main \notin Worker /\ MaxDeploys \in Nat

VARIABLES
  lifespan,     \* whether the application's lifespan is run
  directory,    \* directory[f]: what the file f holds, or NoFile
  place,        \* what the path "contracts" is
  deploys,      \* changes made to the directory so far
  phase,        \* "stopped", "loading", "serving" or "failed"
  loading,      \* loading[p]: the load p is in, or NotLoading
  registry      \* app.state.contract_registry, and the listing it was read from

vars == <<lifespan, directory, place, deploys, phase, loading, registry>>

NoFile == <<"no file">>
NotLoading == [todo |-> {}, listing |-> {}, loaded |-> <<>>, active |-> FALSE]
NoRegistry == [set |-> FALSE, listing |-> {}, contracts |-> <<>>]

Init ==
  /\ lifespan \in BOOLEAN
  /\ directory \in [File -> Document \cup {NoFile}]
  /\ place \in {"directory", "a file", "missing"}
  /\ deploys = 0
  /\ phase = "stopped"
  /\ loading = [p \in Worker \cup {Main} |-> NotLoading]
  /\ registry = NoRegistry

-----------------------------------------------------------------------------
(* Mutant of Listing: one of the two globs.                                *)
YamlListing == {f \in File \ YmlFile : directory[f] # NoFile}

(* sorted(glob("*.yaml") + glob("*.yml")): the set, which is then read in  *)
(* the order of the names.                                                 *)
Listing == {f \in File : directory[f] # NoFile}

IsNext(file, todo) == file \in todo /\ \A f \in todo : Rank[file] <= Rank[f]

NameOf(doc) == FieldOf(doc, "name")[2]

With(contracts, doc) ==
  [n \in DOMAIN contracts \cup {NameOf(doc)} |->
     IF n = NameOf(doc) THEN doc ELSE contracts[n]]

(* The load l when file, which holds doc, is read and accepted.            *)
AfterReading(l, file, doc) ==
  [l EXCEPT !.todo = @ \ {file}, !.loaded = With(@, doc)]

(* Mutant of Refused: a name that is taken is taken over.                  *)
RefusedUnlessValid(contracts, doc) ==
  doc = NoFile \/ IsRaise(doc) \/ doc[1] # "dict" \/ ~ ActionContract(doc)

(* ContractLoadError: the file cannot be opened or parsed, is not a        *)
(* mapping, does not fit the schema, or repeats a name.                    *)
Refused(contracts, doc) ==
  \/ doc = NoFile \/ IsRaise(doc)
  \/ doc[1] # "dict"
  \/ ~ ActionContract(doc)
  \/ NameOf(doc) \in DOMAIN contracts

Begin(p) ==
  loading' = [loading EXCEPT ![p] =
                [todo |-> Listing, listing |-> Listing, loaded |-> <<>>, active |-> TRUE]]

(* Mutant of Fail: the contracts read before the broken file are served.   *)
FailKeepingSome(p) ==
  /\ loading' = [loading EXCEPT ![p] = NotLoading]
  /\ IF p = Main
     THEN phase' = "failed" /\ UNCHANGED registry
     ELSE /\ registry' = [set |-> TRUE, listing |-> loading[p].listing,
                          contracts |-> loading[p].loaded]
          /\ UNCHANGED phase

(* A load fails: in the lifespan the exception stops the process; the      *)
(* dependency replaces it by a registry without contracts, whatever files  *)
(* the load had listed.                                                    *)
Fail(p) ==
  /\ loading' = [loading EXCEPT ![p] = NotLoading]
  /\ IF p = Main
     THEN phase' = "failed" /\ UNCHANGED registry
     ELSE /\ registry' = [set |-> TRUE, listing |-> loading[p].listing, contracts |-> <<>>]
          /\ UNCHANGED phase

Finish(p) ==
  /\ loading[p].active /\ loading[p].todo = {}
  /\ registry' = [set |-> TRUE, listing |-> loading[p].listing,
                  contracts |-> loading[p].loaded]
  /\ loading' = [loading EXCEPT ![p] = NotLoading]
  /\ phase' = IF p = Main THEN "serving" ELSE phase
  /\ UNCHANGED <<lifespan, directory, place, deploys>>

(* Mutant of ReadFile: the registry is filled while the files are read.    *)
ReadFileInPlace(p) ==
  \E file \in File :
    LET doc == directory[file] IN
    /\ loading[p].active /\ IsNext(file, loading[p].todo)
    /\ IF Refused(loading[p].loaded, doc) THEN Fail(p)
       ELSE /\ loading' = [loading EXCEPT ![p] = AfterReading(@, file, doc)]
            /\ registry' = [set |-> TRUE, listing |-> loading[p].listing,
                            contracts |-> With(loading[p].loaded, doc)]
            /\ UNCHANGED phase
    /\ UNCHANGED <<lifespan, directory, place, deploys>>

ReadFile(p) ==
  \E file \in File :
    LET doc == directory[file] IN
    /\ loading[p].active /\ IsNext(file, loading[p].todo)
    /\ IF Refused(loading[p].loaded, doc) THEN Fail(p)
       ELSE /\ loading' = [loading EXCEPT ![p] = AfterReading(@, file, doc)]
            /\ UNCHANGED <<phase, registry>>
    /\ UNCHANGED <<lifespan, directory, place, deploys>>

(* The two checks of the path, and the listing.                            *)
LoadContracts(p) == IF place = "directory" THEN Begin(p) /\ UNCHANGED registry
                    ELSE Fail(p)

Start ==
  /\ phase = "stopped"
  /\ IF lifespan
     THEN LoadContracts(Main) /\ phase' = (IF place = "directory" THEN "loading" ELSE "failed")
     ELSE phase' = "serving" /\ UNCHANGED <<loading, registry>>
  /\ UNCHANGED <<lifespan, directory, place, deploys>>

(* get_contract_registry, when there is none yet.                          *)
GetRegistry(w) ==
  /\ phase = "serving"
  /\ ~ registry.set /\ ~ loading[w].active
  /\ LoadContracts(w)
  /\ UNCHANGED <<lifespan, directory, place, deploys, phase>>

(* The process ends; its memory is gone.                                   *)
Stop ==
  /\ phase # "stopped"
  /\ phase' = "stopped"
  /\ loading' = [p \in Worker \cup {Main} |-> NotLoading]
  /\ registry' = NoRegistry
  /\ UNCHANGED <<lifespan, directory, place, deploys>>

Deploy(f, doc) ==
  /\ deploys < MaxDeploys
  /\ deploys' = deploys + 1
  /\ directory[f] # doc
  /\ directory' = [directory EXCEPT ![f] = doc]
  /\ UNCHANGED <<lifespan, place, phase, loading, registry>>

Next ==
  \/ Start \/ Stop
  \/ \E w \in Worker : GetRegistry(w)
  \/ \E p \in Worker \cup {Main} : ReadFile(p) \/ Finish(p)
  \/ \E f \in File, doc \in Document \cup {NoFile} : Deploy(f, doc)

Spec == Init /\ [][Next]_vars

-----------------------------------------------------------------------------
Served == registry.contracts

(* NoFileIgnored: a registry has one contract for every file its load      *)
(* listed: none was skipped, none hides another of the same name and none  *)
(* is still to come, whatever a deployment did to the files meanwhile and  *)
(* however many requests load at once.  Only a load in a request may fail  *)
(* and serve, and then it serves no contract at all, never some of them.   *)
NoFileIgnored ==
  registry.set =>
    \/ Cardinality(DOMAIN Served) = Cardinality(registry.listing)
    \/ ~ lifespan /\ DOMAIN Served = {}

(* RefusedToolIsUnknown: while the directory stays as it was, a tool is    *)
(* refused as unknown (422) only when no file has a contract of its name.  *)
(* Without a lifespan that is so unless a file was refused, which leaves   *)
(* no tool known at all.                                                   *)
RefusedToolIsUnknown ==
  /\ registry.set /\ deploys = 0 /\ place = "directory"
  /\ lifespan \/ DOMAIN Served # {}
  => \A f \in File :
       /\ directory[f] # NoFile /\ ~ IsRaise(directory[f]) /\ directory[f][1] = "dict"
       /\ ActionContract(directory[f])
       => NameOf(directory[f]) \in DOMAIN Served

=============================================================================
