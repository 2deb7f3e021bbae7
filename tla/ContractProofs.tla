--------------------------- MODULE ContractProofs ---------------------------
(***************************************************************************)
(* Proofs about contracts.  How they are loaded, for any set of file       *)
(* names, any documents, any number of threads and any number of           *)
(* deployments; and how their assertions are evaluated, for any trees, any *)
(* depth limit, any bodies and arguments, and any values and operators the *)
(* interpreter may have.                                                   *)
(***************************************************************************)
EXTENDS ServedContracts, Assertions, EvaluatorProofs

Process == Worker \cup {Main}

IsLoad(l) ==
  l = [todo |-> l.todo, listing |-> l.listing, loaded |-> l.loaded, active |-> l.active]

(* Every file listed is still to come, or has a contract of its own.       *)
Counted(l) ==
  /\ l.todo \subseteq l.listing /\ l.listing \subseteq File
  /\ IsFiniteSet(DOMAIN l.loaded)
  /\ Cardinality(DOMAIN l.loaded) + Cardinality(l.todo) = Cardinality(l.listing)

Knows(contracts, f) == NameOf(directory[f]) \in DOMAIN contracts

Complete(l) == \A f \in Listing : f \in l.todo \/ Knows(l.loaded, f)

LoadTypeOK ==
  /\ deploys \in Nat
  /\ loading = [p \in Process |-> loading[p]]
  /\ \A p \in Process : IsLoad(loading[p])

LoadsCount == \A p \in Process : Counted(loading[p])

(* With a lifespan requests never load and find the registry in its place; *)
(* without one the process does not load before it serves.                 *)
OneWayOfLoading ==
  /\ lifespan => \A w \in Worker : ~ loading[w].active
  /\ ~ lifespan => ~ loading[Main].active
  /\ lifespan /\ phase = "serving" => registry.set

(* While the directory stays as it was, a load passes over no file.        *)
NothingPassedOver ==
  deploys = 0 =>
    /\ \A p \in Process : loading[p].active => Complete(loading[p])
    /\ registry.set /\ (lifespan \/ DOMAIN Served # {})
         => \A f \in Listing : Knows(Served, f)

LoadInv ==
  /\ LoadTypeOK /\ LoadsCount /\ OneWayOfLoading /\ NothingPassedOver
  /\ NoFileIgnored

-----------------------------------------------------------------------------
NewLoad == [todo |-> Listing, listing |-> Listing, loaded |-> <<>>, active |-> TRUE]

(* NothingCounted: no contracts, for no files.                             *)
LEMMA NothingCounted ==
  /\ DOMAIN <<>> = {} /\ IsFiniteSet(DOMAIN <<>>)
  /\ Cardinality(DOMAIN <<>>) = 0 /\ Cardinality({}) = 0
<1>1. DOMAIN <<>> = {} OBVIOUS
<1> QED BY <1>1, FS_EmptySet

(* IdleLoad: a process that loads nothing.                                 *)
LEMMA IdleLoad ==
  IsLoad(NotLoading) /\ Counted(NotLoading) /\ ~ NotLoading.active
<1>1. Counted(NotLoading)
  BY NothingCounted DEF NotLoading, Counted
<1> QED BY <1>1 DEF NotLoading, IsLoad

(* LoadBegins: a load begins with every file to come.                      *)
LEMMA LoadBegins ==
  IsLoad(NewLoad) /\ Counted(NewLoad) /\ Complete(NewLoad)
<1>1. Listing \subseteq File BY DEF Listing
<1>2. IsFiniteSet(Listing) /\ Cardinality(Listing) \in Nat
  BY <1>1, FilesAssumption, FS_Subset, FS_CardinalityType
<1>3. Counted(NewLoad)
  BY <1>1, <1>2, NothingCounted DEF NewLoad, Counted
<1> QED BY <1>3 DEF NewLoad, IsLoad, Complete

(* ReadingKeepsShape: what the load is after a file has been read.         *)
LEMMA ReadingKeepsShape ==
  ASSUME NEW l, IsLoad(l), NEW file, NEW doc
  PROVE  LET n == AfterReading(l, file, doc) IN
         /\ IsLoad(n) /\ n.listing = l.listing /\ n.active = l.active
         /\ n.todo = l.todo \ {file} /\ n.loaded = With(l.loaded, doc)
<1> DEFINE n == AfterReading(l, file, doc)
<1>1. PICK a, b, c, d : l = [todo |-> a, listing |-> b, loaded |-> c, active |-> d]
  BY DEF IsLoad
<1>2. n = [todo |-> a \ {file}, listing |-> b, loaded |-> With(c, doc), active |-> d]
  <2>1. PICK x, y : x = a \ {file} /\ y = With(c, doc) OBVIOUS
  <2>2. n = [l EXCEPT !.todo = x, !.loaded = y]
    BY <1>1, <2>1 DEF AfterReading
  <2>3. PICK m : m = [l EXCEPT !.todo = x] OBVIOUS
  <2>4. m = [todo |-> x, listing |-> b, loaded |-> c, active |-> d]
    BY <1>1, <2>3
  <2>5. [m EXCEPT !.loaded = y] = [todo |-> x, listing |-> b, loaded |-> y, active |-> d]
    BY <2>4
  <2>6. n = [m EXCEPT !.loaded = y] BY <2>2, <2>3
  <2> QED BY <2>1, <2>5, <2>6
<1> QED BY <1>1, <1>2 DEF IsLoad

(* LoadAdvances: a file that is read and not refused leaves the files to   *)
(* come for a contract of a name that was free.                            *)
LEMMA LoadAdvances ==
  ASSUME NEW l, IsLoad(l), Counted(l), NEW file \in l.todo, NEW doc,
         NameOf(doc) \notin DOMAIN l.loaded
  PROVE  LET n == AfterReading(l, file, doc) IN
         /\ IsLoad(n) /\ Counted(n)
         /\ n.todo = l.todo \ {file} /\ n.listing = l.listing /\ n.active = l.active
         /\ DOMAIN n.loaded = DOMAIN l.loaded \cup {NameOf(doc)}
<1> DEFINE n == AfterReading(l, file, doc)
<1>1. /\ IsLoad(n) /\ n.listing = l.listing /\ n.active = l.active
      /\ n.todo = l.todo \ {file} /\ n.loaded = With(l.loaded, doc)
  BY ReadingKeepsShape
<1>2. DOMAIN n.loaded = DOMAIN l.loaded \cup {NameOf(doc)}
  BY <1>1 DEF With
<1>3. IsFiniteSet(l.listing) /\ IsFiniteSet(l.todo) /\ IsFiniteSet(DOMAIN l.loaded)
  BY FilesAssumption, FS_Subset DEF Counted
<1>4. /\ Cardinality(l.todo) \in Nat /\ Cardinality(DOMAIN l.loaded) \in Nat
      /\ Cardinality(n.todo) = Cardinality(l.todo) - 1
  BY <1>1, <1>3, FS_CardinalityType, FS_RemoveElement
<1>5. /\ IsFiniteSet(DOMAIN n.loaded)
      /\ Cardinality(DOMAIN n.loaded) = Cardinality(DOMAIN l.loaded) + 1
  BY <1>2, <1>3, FS_AddElement
<1>6. Counted(n)
  BY <1>1, <1>4, <1>5 DEF Counted
<1> QED BY <1>1, <1>2, <1>6

-----------------------------------------------------------------------------
(* LoadInit: the invariant holds before the process has started.           *)
LEMMA LoadInit == Init => LoadInv
<1> SUFFICES ASSUME Init PROVE LoadInv OBVIOUS
<1>1. \A p \in Process : loading[p] = NotLoading BY DEF Init, Process
<1>2. LoadTypeOK
  BY <1>1, IdleLoad DEF Init, LoadTypeOK, Process
<1>3. LoadsCount BY <1>1, IdleLoad DEF LoadsCount
<1>4. OneWayOfLoading BY <1>1, IdleLoad DEF Init, OneWayOfLoading, Process
<1>5. NothingPassedOver
  BY <1>1, IdleLoad DEF Init, NothingPassedOver, NoRegistry
<1>6. NoFileIgnored BY DEF Init, NoFileIgnored, NoRegistry
<1> QED BY <1>2, <1>3, <1>4, <1>5, <1>6 DEF LoadInv

(* OneLoadChanges: what a step that changes the load of one process keeps  *)
(* of the invariant when the directory is as before.                       *)
LEMMA OneLoadChanges ==
  ASSUME LoadInv, NEW p \in Process, NEW l,
         loading' = [loading EXCEPT ![p] = l],
         IsLoad(l), Counted(l), deploys = 0 /\ l.active => Complete(l),
         UNCHANGED <<directory, deploys>>
  PROVE  /\ LoadTypeOK' /\ LoadsCount'
         /\ deploys = 0 => \A q \in Process : loading'[q].active => Complete(loading[q])'
<1>1. /\ loading' = [q \in Process |-> loading'[q]]
      /\ \A q \in Process : loading'[q] = IF q = p THEN l ELSE loading[q]
  BY DEF LoadInv, LoadTypeOK
<1>2. LoadTypeOK' BY <1>1 DEF LoadInv, LoadTypeOK
<1>3. LoadsCount' BY <1>1 DEF LoadInv, LoadsCount
<1>4. ASSUME deploys = 0, NEW q \in Process, loading'[q].active
      PROVE  Complete(loading[q])'
  <2>1. Complete(loading'[q])
    BY <1>1, <1>4 DEF LoadInv, NothingPassedOver
  <2> QED BY <2>1 DEF Complete, Listing, Knows
<1> QED BY <1>2, <1>3, <1>4

(* RegistryStays: what a step that leaves the registry alone keeps.        *)
LEMMA RegistryStays ==
  ASSUME LoadInv, UNCHANGED <<registry, directory, deploys, lifespan>>
  PROVE  /\ NoFileIgnored'
         /\ deploys = 0 /\ registry'.set /\ (lifespan' \/ DOMAIN Served' # {})
              => \A f \in Listing' : Knows(Served, f)'
BY DEF LoadInv, NoFileIgnored, NothingPassedOver, Served, Listing, Knows
-----------------------------------------------------------------------------
(* StepFails: the end of a load by an exception.                           *)
LEMMA StepFails ==
  ASSUME LoadInv, NEW p \in Process, Fail(p), UNCHANGED <<lifespan, directory, deploys>>,
         p = Main => lifespan, p # Main => ~ lifespan /\ phase' = phase
  PROVE  LoadInv'
<1>1. loading' = [loading EXCEPT ![p] = NotLoading] BY DEF Fail
<1>2. /\ LoadTypeOK' /\ LoadsCount'
      /\ deploys = 0 => \A q \in Process : loading'[q].active => Complete(loading[q])'
  BY <1>1, IdleLoad, OneLoadChanges
<1>3. \A q \in Process : loading'[q] = IF q = p THEN NotLoading ELSE loading[q]
  BY <1>1 DEF LoadInv, LoadTypeOK
<1>4. CASE p = Main
  <2>1. phase' = "failed" /\ registry' = registry BY <1>4 DEF Fail
  <2>2. OneWayOfLoading'
    BY <1>3, <1>4, <2>1, IdleLoad DEF LoadInv, OneWayOfLoading, Process
  <2>3. NothingPassedOver' /\ NoFileIgnored'
    BY <1>2, <2>1, RegistryStays DEF NothingPassedOver
  <2> QED BY <1>2, <2>2, <2>3 DEF LoadInv
<1>5. CASE p # Main
  <2>1. /\ registry' = [set |-> TRUE, listing |-> loading[p].listing, contracts |-> <<>>]
        /\ ~ lifespan'
    BY <1>5 DEF Fail
  <2>2. OneWayOfLoading'
    BY <1>3, <1>5, <2>1, IdleLoad DEF LoadInv, OneWayOfLoading, Process
  <2>3. NothingPassedOver' /\ NoFileIgnored'
    BY <1>2, <2>1, NothingCounted DEF NothingPassedOver, NoFileIgnored, Served
  <2> QED BY <1>2, <2>2, <2>3 DEF LoadInv
<1> QED BY <1>4, <1>5

(* StepFinishes: a load whose files have all been read becomes the         *)
(* registry: every file has its contract in it, and each one its own.      *)
LEMMA StepFinishes ==
  ASSUME LoadInv, NEW p \in Process, Finish(p)
  PROVE  LoadInv'
<1>1. loading' = [loading EXCEPT ![p] = NotLoading] /\ loading[p].active
      /\ loading[p].todo = {}
      /\ registry' = [set |-> TRUE, listing |-> loading[p].listing,
                      contracts |-> loading[p].loaded]
      /\ UNCHANGED <<lifespan, directory, deploys>>
      /\ phase' = IF p = Main THEN "serving" ELSE phase
  BY DEF Finish
<1>2. /\ LoadTypeOK' /\ LoadsCount'
      /\ deploys = 0 => \A q \in Process : loading'[q].active => Complete(loading[q])'
  BY <1>1, IdleLoad, OneLoadChanges
<1>3. \A q \in Process : loading'[q] = IF q = p THEN NotLoading ELSE loading[q]
  BY <1>1 DEF LoadInv, LoadTypeOK
<1>4. OneWayOfLoading'
  BY <1>1, <1>3, IdleLoad DEF LoadInv, OneWayOfLoading, Process
<1>5. NoFileIgnored'
  <2>1. Counted(loading[p]) BY DEF LoadInv, LoadsCount
  <2>2. Cardinality(DOMAIN loading[p].loaded) \in Nat
    BY <2>1, FS_CardinalityType DEF Counted
  <2>3. Cardinality(DOMAIN loading[p].loaded) = Cardinality(loading[p].listing)
    BY <1>1, <2>1, <2>2, NothingCounted DEF Counted
  <2> QED BY <1>1, <2>3 DEF NoFileIgnored, Served
<1>6. ASSUME deploys = 0, NEW f \in Listing' PROVE Knows(Served, f)'
  <2>1. f \in Listing BY <1>1 DEF Listing
  <2>2. Knows(loading[p].loaded, f)
    BY <1>1, <1>6, <2>1 DEF LoadInv, NothingPassedOver, Complete
  <2> QED BY <1>1, <2>2 DEF Knows, Served
<1>7. NothingPassedOver'
  BY <1>1, <1>2, <1>6 DEF NothingPassedOver
<1> QED BY <1>2, <1>4, <1>5, <1>7 DEF LoadInv

(* StepReads: a file that is refused ends the load; any other adds the one *)
(* contract it is counted for.                                             *)
LEMMA StepReads ==
  ASSUME LoadInv, NEW p \in Process, ReadFile(p)
  PROVE  LoadInv'
<1>1. PICK file \in File :
        /\ loading[p].active /\ file \in loading[p].todo
        /\ IF Refused(loading[p].loaded, directory[file]) THEN Fail(p)
           ELSE /\ loading' = [loading EXCEPT ![p] =
                                 AfterReading(loading[p], file, directory[file])]
                /\ UNCHANGED <<phase, registry>>
        /\ UNCHANGED <<lifespan, directory, deploys>>
  BY DEF ReadFile, IsNext
<1>2. (p = Main => lifespan) /\ (p # Main => ~ lifespan)
  BY <1>1 DEF LoadInv, OneWayOfLoading, Process
<1>3. CASE Refused(loading[p].loaded, directory[file])
  <2>1. p # Main => phase' = phase BY <1>1, <1>3 DEF Fail
  <2> QED BY <1>1, <1>2, <1>3, <2>1, StepFails
<1>4. CASE ~ Refused(loading[p].loaded, directory[file])
  <2> DEFINE n == AfterReading(loading[p], file, directory[file])
  <2>1. /\ loading' = [loading EXCEPT ![p] = n]
        /\ UNCHANGED <<phase, registry, lifespan, directory, deploys>>
    BY <1>1, <1>4
  <2>2. NameOf(directory[file]) \notin DOMAIN loading[p].loaded
    BY <1>4 DEF Refused
  <2>3. IsLoad(loading[p]) /\ Counted(loading[p])
    BY DEF LoadInv, LoadTypeOK, LoadsCount
  <2>4. /\ IsLoad(n) /\ Counted(n) /\ n.active
        /\ n.todo = loading[p].todo \ {file}
        /\ DOMAIN n.loaded = DOMAIN loading[p].loaded \cup {NameOf(directory[file])}
    BY <1>1, <2>2, <2>3, LoadAdvances
  <2> HIDE DEF n
  <2>5. deploys = 0 => Complete(n)
    BY <1>1, <2>4 DEF LoadInv, NothingPassedOver, Complete, Knows
  <2>6. /\ LoadTypeOK' /\ LoadsCount'
        /\ deploys = 0 => \A q \in Process : loading'[q].active => Complete(loading[q])'
    BY <2>1, <2>4, <2>5, OneLoadChanges
  <2>7. \A q \in Process : loading'[q] = IF q = p THEN n ELSE loading[q]
    BY <2>1 DEF LoadInv, LoadTypeOK
  <2>8. OneWayOfLoading'
    BY <1>1, <1>2, <2>1, <2>4, <2>7 DEF LoadInv, OneWayOfLoading, Process
  <2>9. NothingPassedOver' /\ NoFileIgnored'
    BY <2>1, <2>6, RegistryStays DEF NothingPassedOver
  <2> QED BY <2>6, <2>8, <2>9 DEF LoadInv
<1> QED BY <1>3, <1>4
-----------------------------------------------------------------------------
(* StepBegins: the listing of a directory that is there.                   *)
LEMMA StepBegins ==
  ASSUME LoadInv, NEW p \in Process, Begin(p),
         UNCHANGED <<lifespan, directory, deploys, registry>>,
         p = Main => lifespan /\ phase' # "serving",
         p # Main => ~ lifespan
  PROVE  LoadInv'
<1>1. loading' = [loading EXCEPT ![p] = NewLoad] BY DEF Begin, NewLoad
<1>2. /\ LoadTypeOK' /\ LoadsCount'
      /\ deploys = 0 => \A q \in Process : loading'[q].active => Complete(loading[q])'
  BY <1>1, LoadBegins, OneLoadChanges
<1>3. \A q \in Process : loading'[q] = IF q = p THEN NewLoad ELSE loading[q]
  BY <1>1 DEF LoadInv, LoadTypeOK
<1>4. OneWayOfLoading'
  BY <1>3, StartupAssumption DEF LoadInv, OneWayOfLoading, Process
<1>5. NothingPassedOver' /\ NoFileIgnored'
  BY <1>2, RegistryStays DEF NothingPassedOver
<1> QED BY <1>2, <1>4, <1>5 DEF LoadInv

(* LoadNext: every step keeps the invariant.                               *)
LEMMA LoadNext == LoadInv /\ [Next]_vars => LoadInv'
<1> SUFFICES ASSUME LoadInv, [Next]_vars PROVE LoadInv' OBVIOUS
<1>m. Main \in Process /\ \A w \in Worker : w \in Process /\ w # Main
  BY StartupAssumption DEF Process
<1>1. CASE Start
  <2>1. UNCHANGED <<lifespan, directory, place, deploys>> BY <1>1 DEF Start
  <2>2. CASE lifespan /\ place = "directory"
    <3>1. Begin(Main) /\ UNCHANGED registry /\ phase' = "loading"
      BY <1>1, <2>2 DEF Start, LoadContracts
    <3> QED BY <1>m, <2>1, <2>2, <3>1, StepBegins
  <2>3. CASE lifespan /\ place # "directory"
    <3>1. Fail(Main) BY <1>1, <2>3 DEF Start, LoadContracts
    <3> QED BY <1>m, <2>1, <2>3, <3>1, StepFails
  <2>4. CASE ~ lifespan
    <3>1. UNCHANGED <<loading, registry>> BY <1>1, <2>4 DEF Start
    <3>2. /\ LoadTypeOK' /\ LoadsCount' /\ OneWayOfLoading'
      BY <2>1, <2>4, <3>1 DEF LoadInv, LoadTypeOK, LoadsCount, OneWayOfLoading
    <3>3. NothingPassedOver' /\ NoFileIgnored'
      BY <2>1, <3>1 DEF LoadInv, NothingPassedOver, NoFileIgnored, Complete,
                        Listing, Knows, Served
    <3> QED BY <3>2, <3>3 DEF LoadInv
  <2> QED BY <2>2, <2>3, <2>4
<1>2. CASE Stop
  <2>1. /\ \A p \in Process : loading'[p] = NotLoading
        /\ loading' = [p \in Process |-> loading'[p]]
        /\ registry' = NoRegistry /\ phase' = "stopped" /\ deploys' = deploys
    BY <1>2 DEF Stop, Process
  <2>2. LoadTypeOK' /\ LoadsCount'
    BY <2>1, IdleLoad DEF LoadInv, LoadTypeOK, LoadsCount
  <2>3. OneWayOfLoading'
    BY <2>1, <1>m, IdleLoad DEF OneWayOfLoading
  <2>4. NothingPassedOver' /\ NoFileIgnored'
    BY <2>1, IdleLoad DEF NothingPassedOver, NoFileIgnored, NoRegistry
  <2> QED BY <2>2, <2>3, <2>4 DEF LoadInv
<1>3. ASSUME NEW w \in Worker, GetRegistry(w) PROVE LoadInv'
  <2>1. /\ UNCHANGED <<lifespan, directory, place, deploys, phase>>
        /\ phase = "serving" /\ ~ registry.set /\ LoadContracts(w)
    BY <1>3 DEF GetRegistry
  <2>2. ~ lifespan BY <2>1 DEF LoadInv, OneWayOfLoading
  <2>3. CASE place = "directory"
    <3>1. Begin(w) /\ UNCHANGED registry BY <2>1, <2>3 DEF LoadContracts
    <3> QED BY <1>m, <2>1, <2>2, <3>1, StepBegins
  <2>4. CASE place # "directory"
    <3>1. Fail(w) BY <2>1, <2>4 DEF LoadContracts
    <3> QED BY <1>m, <2>1, <2>2, <3>1, StepFails
  <2> QED BY <2>3, <2>4
<1>4. ASSUME NEW p \in Process, ReadFile(p) \/ Finish(p) PROVE LoadInv'
  BY <1>4, StepReads, StepFinishes
<1>5. ASSUME NEW f \in File, NEW doc \in Document \cup {NoFile}, Deploy(f, doc)
      PROVE  LoadInv'
  <2>1. /\ deploys' = deploys + 1
        /\ UNCHANGED <<lifespan, phase, loading, registry>>
    BY <1>5 DEF Deploy
  <2>2. deploys' \in Nat /\ deploys' # 0
    BY <2>1 DEF LoadInv, LoadTypeOK
  <2>3. LoadTypeOK' /\ LoadsCount' /\ OneWayOfLoading' /\ NoFileIgnored'
    BY <2>1, <2>2 DEF LoadInv, LoadTypeOK, LoadsCount, OneWayOfLoading,
                      NoFileIgnored, Served
  <2>4. NothingPassedOver' BY <2>2 DEF NothingPassedOver
  <2> QED BY <2>3, <2>4 DEF LoadInv
<1>6. CASE UNCHANGED vars
  <2>1. UNCHANGED <<lifespan, directory, deploys, phase, loading, registry>>
    BY <1>6 DEF vars
  <2>2. LoadTypeOK' /\ LoadsCount' /\ OneWayOfLoading' /\ NoFileIgnored'
    BY <2>1 DEF LoadInv, LoadTypeOK, LoadsCount, OneWayOfLoading, NoFileIgnored, Served
  <2>3. NothingPassedOver'
    BY <2>1 DEF LoadInv, NothingPassedOver, Complete, Listing, Knows, Served
  <2> QED BY <2>2, <2>3 DEF LoadInv
<1> QED BY <1>1, <1>2, <1>3, <1>4, <1>5, <1>6 DEF Next, Process

(* LoadAlways: the invariant is one.                                       *)
LEMMA LoadAlways == Spec => []LoadInv
BY LoadInit, LoadNext, PTL DEF Spec

-----------------------------------------------------------------------------
(* EveryFileCounts: a registry has exactly one contract for every file its *)
(* load listed or, without a lifespan, no contract at all, whatever is     *)
(* deployed while it reads and however many requests load at once:         *)
(* load_contracts skips nothing and lets no file replace another.          *)
THEOREM EveryFileCounts == Spec => []NoFileIgnored
<1>1. LoadInv => NoFileIgnored BY DEF LoadInv
<1> QED BY <1>1, LoadAlways, PTL

(* RefusedIsUnknown: in a directory that nobody changes, the gateway knows *)
(* every tool that some file has a contract for, unless the directory was  *)
(* refused as a whole.                                                     *)
THEOREM RefusedIsUnknown == Spec => []RefusedToolIsUnknown
<1>1. LoadInv => RefusedToolIsUnknown
  BY DEF LoadInv, NothingPassedOver, RefusedToolIsUnknown, Knows, Listing
<1> QED BY <1>1, LoadAlways, PTL

-----------------------------------------------------------------------------
PathStep(n, Path(_)) ==
  \/ n[1] = "Name"
  \/ n[1] = "Attribute" /\ Path(n[2])
  \/ n[1] = "Subscript" /\ Path(n[2]) /\ n[3][1] = "Constant"

(* IsPathIs: whether a tree is a path, from whether its parts are.         *)
LEMMA IsPathIs ==
  ASSUME NEW n \in Node
  PROVE  /\ n[1] \in {"Attribute", "Subscript"} => n[2] \in Node
         /\ IsPath(n) <=> PathStep(n, IsPath)
<1>1. \A m \in Node : m[1] \in {"Attribute", "Subscript"} => m[2] \in Children(m)
  BY DEF Children
<1> DEFINE path == CHOOSE f : f = [m \in Node |-> PathStep(m, LAMBDA p : f[p])]
           G == [m \in Node |-> {S \in SUBSET Node : PathStep(m, LAMBDA p : p \in S)}]
<1>2. path = [m \in Node |-> PathStep(m, LAMBDA p : path[p])]
  <2>1. PICK T \in SUBSET Node : \A m \in Node : m \in T <=> T \cap Children(m) \in G[m]
    BY RecursivePredicate
  <2> DEFINE f == [m \in Node |-> m \in T]
  <2>2. ASSUME NEW m \in Node PROVE m \in T <=> PathStep(m, LAMBDA p : f[p])
    <3>1. m \in T <=> PathStep(m, LAMBDA p : p \in T \cap Children(m))
      BY <2>1
    <3>2. m[1] \in {"Attribute", "Subscript"} => (f[m[2]] <=> m[2] \in T \cap Children(m))
      BY <1>1, PartsAreNodes
    <3> QED BY <3>1, <3>2 DEF PathStep
  <2>3. ASSUME NEW m \in Node PROVE f[m] = PathStep(m, LAMBDA p : f[p])
    <3>1. PathStep(m, LAMBDA p : f[p]) \in BOOLEAN BY DEF PathStep
    <3>2. f[m] = (m \in T) /\ (m \in T) \in BOOLEAN OBVIOUS
    <3> HIDE DEF f
    <3> QED BY <2>2, <3>1, <3>2
  <2>4. f = [m \in Node |-> f[m]] OBVIOUS
  <2> HIDE DEF f
  <2>5. f = [m \in Node |-> PathStep(m, LAMBDA p : f[p])] BY <2>3, <2>4
  <2> QED BY <2>5
<1>3. \A m \in Node : IsPath(m) = path[m]
  BY DEF IsPath, PathStep
<1> HIDE DEF path
<1> QED BY <1>1, <1>2, <1>3, PartsAreNodes DEF PathStep

LeadsStep(n, Leads(_)) ==
  \/ n[1] = "Name" /\ n[2] \in DOMAIN context
  \/ n[1] = "Constant"
  \/ /\ n[1] \in {"Attribute", "Subscript"}
     /\ Leads(n[2])
     /\ LET v == EvalNode(n[2], context)
            k == IF n[1] = "Attribute" THEN Str(n[3]) ELSE DictKey(n[3][2])
        IN IF v[1] = "dict" THEN k \in DOMAIN v[2] ELSE v # None

(* LeadsSomewhereIs: whether a path leads somewhere, from whether its      *)
(* beginning does.                                                         *)
LEMMA LeadsSomewhereIs ==
  ASSUME NEW n \in Node
  PROVE  LeadsSomewhere(n) <=> LeadsStep(n, LeadsSomewhere)
<1>1. \A m \in Node : m[1] \in {"Attribute", "Subscript"} => m[2] \in Children(m)
  BY DEF Children
<1> DEFINE leads == CHOOSE f : f = [m \in Node |-> LeadsStep(m, LAMBDA p : f[p])]
           G == [m \in Node |-> {S \in SUBSET Node : LeadsStep(m, LAMBDA p : p \in S)}]
<1>2. leads = [m \in Node |-> LeadsStep(m, LAMBDA p : leads[p])]
  <2>1. PICK T \in SUBSET Node : \A m \in Node : m \in T <=> T \cap Children(m) \in G[m]
    BY RecursivePredicate
  <2> DEFINE f == [m \in Node |-> m \in T]
  <2>2. ASSUME NEW m \in Node PROVE m \in T <=> LeadsStep(m, LAMBDA p : f[p])
    <3>1. m \in T <=> LeadsStep(m, LAMBDA p : p \in T \cap Children(m))
      BY <2>1
    <3>2. m[1] \in {"Attribute", "Subscript"} => (f[m[2]] <=> m[2] \in T \cap Children(m))
      BY <1>1, PartsAreNodes
    <3> HIDE DEF f
    <3> QED BY <3>1, <3>2 DEF LeadsStep
  <2>3. ASSUME NEW m \in Node PROVE f[m] = LeadsStep(m, LAMBDA p : f[p])
    <3>1. LeadsStep(m, LAMBDA p : f[p]) \in BOOLEAN BY DEF LeadsStep
    <3>2. f[m] = (m \in T) /\ (m \in T) \in BOOLEAN OBVIOUS
    <3> HIDE DEF f
    <3> QED BY <2>2, <3>1, <3>2
  <2>4. f = [m \in Node |-> f[m]] OBVIOUS
  <2> HIDE DEF f
  <2>5. f = [m \in Node |-> LeadsStep(m, LAMBDA p : f[p])] BY <2>3, <2>4
  <2> QED BY <2>5
<1>3. \A m \in Node : LeadsSomewhere(m) = leads[m]
  BY DEF LeadsSomewhere, LeadsStep
<1> HIDE DEF leads
<1>4. n[1] \in {"Attribute", "Subscript"} => n[2] \in Node
  BY <1>1, PartsAreNodes
<1> QED BY <1>2, <1>3, <1>4 DEF LeadsStep

(* EvaluationInv: an evaluation is of an assert list in a context made of *)
(* a body and arguments, and its outcome is what evaluate_postcondition    *)
(* yields.                                                                 *)
EvaluationInv ==
  /\ expressions \in AssertionLists
  /\ \E b \in Body, a \in Args : context = ContextOf(b, a)
  /\ outcome \in {Pending, EvaluatePostcondition(expressions, context)}

(* EvaluationInvHolds: nothing is evaluated in another context.            *)
THEOREM EvaluationInvHolds == Evaluation => []EvaluationInv
<1>1. Given => EvaluationInv BY DEF Given, EvaluationInv
<1>2. EvaluationInv /\ [Return]_evaluationVars => EvaluationInv'
  BY DEF EvaluationInv, Return, evaluationVars
<1> QED BY <1>1, <1>2, PTL DEF Evaluation

(* The members of an assert list are trees.                                *)
LEMMA ExpressionsAreTrees ==
  EvaluationInv => \A i \in DOMAIN expressions : expressions[i] \in Node
BY AssertionsAssumption DEF EvaluationInv

(* ChainValue: a chain and its conjunction have one value.                 *)
LEMMA ChainValue ==
  ASSUME NEW c, NEW m \in Node, IsChain(m)
  PROVE  EvalNode(m, c) = EvalNode(Unchained(m), c)
<1> DEFINE l == Part(m[2], c)
           a == Part(m[4][1], c)
           b == Part(m[4][2], c)
           u == Unchained(m)
<1>1. /\ m[1] = "Compare" /\ DOMAIN m[3] = {1, 2} /\ DOMAIN m[4] = {1, 2}
  <2>1. \A S : \A s \in Seq(S) : Len(s) = 2 => DOMAIN s = {1, 2} OBVIOUS
  <2> QED BY <2>1, ForestAssumption DEF IsChain, IsList
<1>2. EvalNode(m, c) =
        IF IsTrue(Link(m[3][1], l, a)) THEN LinkResult(Link(m[3][2], a, b))
        ELSE LinkResult(Link(m[3][1], l, a))
  <2> DEFINE rights == Parts(m[4], c)
  <2>1. rights[1] = a /\ rights[2] = b BY <1>1 DEF Parts
  <2>2. EvalNode(m, c) = EvalLinks(l, m[3], rights) BY <1>1, EvalCompareNode
  <2> HIDE DEF rights, l, a, b
  <2>3. EvalLinks(l, m[3], rights) =
          IF IsTrue(Link(m[3][1], l, rights[1])) THEN LinkResult(Link(m[3][2], rights[1], rights[2]))
          ELSE LinkResult(Link(m[3][1], l, rights[1]))
    BY <1>1, TwoLinks
  <2> QED BY <2>1, <2>2, <2>3
<1>3. u \in Node BY AssertionsAssumption
<1>4. ASSUME NEW x, NEW op, NEW y, <<"Compare", x, <<op>>, <<y>> >> \in Node
      PROVE  EvalNode(<<"Compare", x, <<op>>, <<y>> >>, c) =
               LinkResult(Link(op, Part(x, c), Part(y, c)))
  <2> DEFINE n == <<"Compare", x, <<op>>, <<y>> >>
  <2>1. n[1] = "Compare" /\ n[2] = x /\ n[3] = <<op>> /\ n[4] = <<y>> OBVIOUS
  <2> HIDE DEF n
  <2>2. EvalNode(n, c) = EvalLinks(Part(x, c), <<op>>, Parts(<<y>>, c))
    BY <1>4, <2>1, EvalCompareNode DEF n
  <2>3. DOMAIN <<op>> = {1} /\ Parts(<<y>>, c)[1] = Part(y, c) /\ <<op>>[1] = op BY DEF Parts
  <2> QED BY <2>2, <2>3, OneLink DEF n
<1> DEFINE first == <<"Compare", m[2], <<m[3][1]>>, <<m[4][1]>> >>
           second == <<"Compare", m[4][1], <<m[3][2]>>, <<m[4][2]>> >>
<1>5. u[1] = "BoolOp" /\ u[2] = "And" /\ u[3] = <<first, second>>
  BY DEF Unchained
<1>6. first \in Node /\ second \in Node
  <2>1. Range(u[3]) = {first, second}
    <3> HIDE DEF first, second, u
    <3> QED BY <1>5 DEF Range
  <2> HIDE DEF first, second, u
  <2> QED BY <1>3, <1>5, <2>1, PartsAreNodes DEF Children
<1>7. first # NoKeyNode /\ second # NoKeyNode BY DEF NoKeyNode
<1>8. /\ Part(first, c) = LinkResult(Link(m[3][1], l, a))
      /\ Part(second, c) = LinkResult(Link(m[3][2], a, b))
  BY <1>4, <1>6, <1>7 DEF Part
<1>9. EvalNode(u, c) = EvalBoolOp("And", Parts(<<first, second>>, c))
  <2> HIDE DEF u, first, second
  <2> QED BY <1>3, <1>5, EvalBoolOpNode
<1> HIDE DEF first, second
<1>10. /\ DOMAIN Parts(<<first, second>>, c) = {1, 2}
       /\ Parts(<<first, second>>, c)[1] = Part(first, c)
       /\ Parts(<<first, second>>, c)[2] = Part(second, c)
  BY DEF Parts
<1> HIDE DEF u, l, a, b
<1> QED BY <1>2, <1>8, <1>9, <1>10, Conjunction DEF u

(* ChainIsConjunctionHolds: a chained comparison means what Python says,   *)
(* for every tree and every behaviour of the interpreter's operators.      *)
THEOREM ChainIsConjunctionHolds == Evaluation => []ChainIsConjunction
<1>1. EvaluationInv => ChainIsConjunction
  BY ExpressionsAreTrees, ChainValue DEF ChainIsConjunction
<1> QED BY <1>1, EvaluationInvHolds, PTL

(* The context of an evaluation is made of values.                         *)
LEMMA ContextOfValues ==
  ASSUME NEW Value, Body \subseteq Value, Args \subseteq Value, EvaluationInv
  PROVE  ContextIn(context, Value)
<1>1. PICK b \in Body, a \in Args : context = ContextOf(b, a) BY DEF EvaluationInv
<1>2. b \in Value /\ a \in Value OBVIOUS
<1> QED BY <1>1, <1>2 DEF ContextOf, ContextIn

(* AcceptedIsEvaluableHolds: what the safety check accepts, evaluation     *)
(* knows, for every tree, depth limit, body and arguments.                 *)
THEOREM AcceptedIsEvaluableHolds ==
  ASSUME NEW CONSTANT Value, PythonValues(Value),
         Body \subseteq Value, Args \subseteq Value
  PROVE  Evaluation => []AcceptedIsEvaluable
<1>1. EvaluationInv => AcceptedIsEvaluable
  <2> SUFFICES ASSUME EvaluationInv, NEW i \in DOMAIN expressions, CheckAstSafety(expressions[i])
               PROVE  EvalNode(expressions[i], context) # Raise("UnsafeExpressionError")
    BY DEF AcceptedIsEvaluable
  <2>1. PICK n \in Node : n = expressions[i] BY ExpressionsAreTrees
  <2>2. Yields(EvalNode(n, context), Value) BY <2>1, ContextOfValues, SafeYields
  <2>3. \A v \in Value : v # Raise("UnsafeExpressionError")
    BY DEF PythonValues, ValuesOfPython, IsRaise, Raise
  <2> QED BY <2>1, <2>2, <2>3 DEF Yields
<1> QED BY <1>1, EvaluationInvHolds, PTL

-----------------------------------------------------------------------------
(* The parts of a path, and what _eval_node returns for them.              *)
LEMMA PathParts ==
  ASSUME NEW Value, PythonValues(Value), NEW c, NEW n \in Node, IsPath(n)
  PROVE  /\ n[1] \in {"Name", "Attribute", "Subscript"} /\ n # NoKeyNode
         /\ n[1] \in {"Attribute", "Subscript"} =>
              /\ n[2] \in Node /\ n[2] \in Children(n) /\ IsPath(n[2])
              /\ Part(n[2], c) = EvalNode(n[2], c)
         /\ n[1] = "Subscript" => Part(n[3], c) = n[3][2] /\ n[3][2] \in Value
<1>1. \A m \in Node : IsPath(m) =>
        m[1] \in {"Name", "Attribute", "Subscript"} /\ m # NoKeyNode
  BY IsPathIs DEF PathStep, NoKeyNode
<1>2. n[1] \in {"Attribute", "Subscript"} =>
        n[2] \in Node /\ n[2] \in Children(n) /\ IsPath(n[2])
  <2>1. n[1] \in {"Attribute", "Subscript"} => n[2] \in Node BY IsPathIs
  <2>2. PathStep(n, IsPath) BY IsPathIs
  <2> QED BY <2>1, <2>2 DEF PathStep, Children
<1>3. ASSUME n[1] = "Subscript" PROVE Part(n[3], c) = n[3][2] /\ n[3][2] \in Value
  <2>1. n[3][1] = "Constant"
    <3>1. PathStep(n, IsPath) BY IsPathIs
    <3> QED BY <1>3, <3>1 DEF PathStep
  <2>2. n[3] \in Node BY <1>3, PartsAreNodes DEF Children
  <2>3. n[3] # NoKeyNode BY <2>1 DEF NoKeyNode
  <2> QED BY <2>1, <2>2, <2>3, EvalLeaf DEF Part, PythonValues, ConstantsOfPython
<1> QED BY <1>1, <1>2, <1>3 DEF Part

(* What a path leads to is a value, or an EvaluationError.                 *)
Found(v, Value) == v \in Value \cup {Raise("EvaluationError")}

(* PathFound: evaluating a path ends in one of these two ways.             *)
LEMMA PathFound ==
  ASSUME NEW Value, PythonValues(Value), NEW c, ContextIn(c, Value),
         NEW n \in Node, IsPath(n)
  PROVE  Found(EvalNode(n, c), Value)
<1> DEFINE P == {m \in Node : IsPath(m) => Found(EvalNode(m, c), Value)}
<1>1. ASSUME NEW m \in Node, Children(m) \subseteq P, IsPath(m)
      PROVE  Found(EvalNode(m, c), Value)
  <2>1. CASE m[1] = "Name"
    <3>1. EvalNode(m, c) = EvalName(m[2], c) BY <2>1, EvalLeaf
    <3>2. None \in Value /\ Bool(TRUE) \in Value /\ Bool(FALSE) \in Value
      BY DEF PythonValues, ValuesOfPython
    <3> QED BY <3>1, <3>2 DEF EvalName, ContextIn, Found
  <2>2. CASE m[1] = "Attribute"
    <3>1. PICK v : v = EvalNode(m[2], c) OBVIOUS
    <3>2. Found(v, Value) BY <1>1, <2>2, <3>1, PathParts
    <3>3. EvalNode(m, c) = IF IsRaise(v) THEN v ELSE EvalAttribute(v, m[3])
      BY <1>1, <2>2, <3>1, PathParts, EvalAttributeNode DEF Then
    <3>4. v \in Value => Found(EvalAttribute(v, m[3]), Value) BY AttributeYields DEF Found
    <3>5. IsRaise(Raise("EvaluationError")) BY DEF Raise, IsRaise
    <3> QED BY <3>2, <3>3, <3>4, <3>5 DEF Found
  <2>3. CASE m[1] = "Subscript"
    <3>1. PICK v, w : v = EvalNode(m[2], c) /\ w = m[3][2] OBVIOUS
    <3>2. Found(v, Value) BY <1>1, <2>3, <3>1, PathParts
    <3>3. w \in Value /\ Part(m[3], c) = w BY <1>1, <2>3, <3>1, PathParts
    <3>4. EvalNode(m, c) = IF IsRaise(v) THEN v ELSE IF IsRaise(w) THEN w ELSE EvalSubscript(v, w)
      <4>1. Part(m[2], c) = v BY <1>1, <2>3, <3>1, PathParts
      <4> QED BY <2>3, <3>3, <4>1, EvalSubscriptNode DEF Then
    <3>5. v \in Value => Found(EvalSubscript(v, w), Value) BY <3>3, SubscriptYields DEF Found
    <3>6. IsRaise(Raise("EvaluationError")) BY DEF Raise, IsRaise
    <3>7. ~ IsRaise(w) BY <3>3 DEF PythonValues, ValuesOfPython
    <3> QED BY <3>2, <3>4, <3>5, <3>6, <3>7 DEF Found
  <2> QED BY <1>1, <2>1, <2>2, <2>3, PathParts
<1>2. \A m \in Node : Children(m) \subseteq P => m \in P BY <1>1
<1> HIDE DEF P
<1>3. n \in P BY <1>2, TreeInduction
<1> QED BY <1>3 DEF P

(* The value of a comparison of a path with an operand.                    *)
LEMMA EqualityValue ==
  ASSUME NEW Value, PythonValues(Value), NEW c, ContextIn(c, Value),
         NEW m \in Node, IsEquality(m)
  PROVE  /\ EvalNode(m, c) \in {Bool(TRUE), Bool(FALSE), Raise("EvaluationError")}
         /\ m[2] \in Node /\ m[4][1] \in Node
         /\ EvalNode(m, c) = Raise("EvaluationError")
            \/ (~ IsRaise(EvalNode(m[2], c)) /\ ~ IsRaise(EvalNode(m[4][1], c)))
<1>1. m[1] = "Compare" /\ m[3] = <<"Eq">> /\ IsPath(m[2]) /\ IsOperand(m[4][1])
  BY DEF IsEquality
<1>2. DOMAIN m[3] = {1} /\ DOMAIN m[4] = {1}
  <2>1. IsList(m[3]) /\ IsList(m[4]) /\ Len(m[3]) = Len(m[4])
    BY <1>1, ForestAssumption
  <2>2. Len(m[3]) = 1 BY <1>1
  <2>3. \A S : \A s \in Seq(S) : Len(s) = 1 => DOMAIN s = {1} OBVIOUS
  <2> QED BY <2>1, <2>2, <2>3 DEF IsList
<1>3. m[2] \in Node /\ m[4][1] \in Node
  <2>1. m[2] \in Children(m) /\ m[4][1] \in Children(m) BY <1>1, <1>2 DEF Children, Range
  <2> QED BY <2>1, PartsAreNodes
<1>4. Found(EvalNode(m[2], c), Value) /\ Part(m[2], c) = EvalNode(m[2], c)
  BY <1>1, <1>3, PathFound, PathParts DEF Part
<1>5. Found(EvalNode(m[4][1], c), Value) /\ Part(m[4][1], c) = EvalNode(m[4][1], c)
  <2>1. CASE IsPath(m[4][1]) BY <1>3, <2>1, PathFound, PathParts DEF Part
  <2>2. CASE m[4][1][1] = "Constant"
    <3>1. m[4][1] # NoKeyNode BY <2>2 DEF NoKeyNode
    <3>2. EvalNode(m[4][1], c) \in Value
      BY <1>3, <2>2, EvalLeaf DEF PythonValues, ConstantsOfPython
    <3> QED BY <3>1, <3>2 DEF Part, Found
  <2> QED BY <1>1, <2>1, <2>2 DEF IsOperand
<1>6. PICK v, w : v = EvalNode(m[2], c) /\ w = EvalNode(m[4][1], c) OBVIOUS
<1>7. EvalNode(m, c) = LinkResult(Link("Eq", v, w))
  <2>1. PICK rights : rights = Parts(m[4], c) OBVIOUS
  <2>2. rights[1] = w BY <1>2, <1>5, <1>6, <2>1 DEF Parts
  <2>3. EvalNode(m, c) = EvalLinks(v, m[3], rights)
    BY <1>1, <1>4, <1>6, <2>1, EvalCompareNode
  <2>4. m[3][1] = "Eq" BY <1>1
  <2> QED BY <1>2, <2>2, <2>3, <2>4, OneLink
<1>8. Link("Eq", v, w) = IF IsRaise(v) THEN v ELSE IF IsRaise(w) THEN w
                         ELSE Bool(EqualTo(v, w))
  BY DEF Link, Then, EvalCompareOp
<1>9. IsRaise(Raise("EvaluationError")) /\ ~ IsTrue(Raise("EvaluationError"))
  BY DEF Raise, IsRaise, IsTrue, Bool
<1>10. \A x \in Value : ~ IsRaise(x) BY DEF PythonValues, ValuesOfPython
<1>11. v \in Value /\ w \in Value => EqualTo(v, w) \in BOOLEAN
  BY DEF PythonValues, OperatorsOfPython
<1>12. LinkResult(Raise("EvaluationError")) = Raise("EvaluationError")
  BY <1>9 DEF LinkResult, Then
<1>13. \A b \in BOOLEAN : LinkResult(Bool(b)) \in {Bool(TRUE), Bool(FALSE)}
  BY BooleanValues DEF LinkResult, Then
<1>14. Found(v, Value) /\ Found(w, Value) BY <1>4, <1>5, <1>6
<1>15. CASE IsRaise(v) \/ IsRaise(w)
  <2>1. Link("Eq", v, w) = Raise("EvaluationError")
    BY <1>8, <1>10, <1>14, <1>15 DEF Found
  <2> QED BY <1>3, <1>7, <1>12, <2>1
<1>16. CASE ~ IsRaise(v) /\ ~ IsRaise(w)
  <2>1. v \in Value /\ w \in Value BY <1>9, <1>14, <1>16 DEF Found
  <2>2. EvalNode(m, c) \in {Bool(TRUE), Bool(FALSE)}
    BY <1>7, <1>8, <1>11, <1>13, <1>16, <2>1
  <2> QED BY <1>3, <1>6, <1>16, <2>2
<1> QED BY <1>15, <1>16

(* EqualityContainedHolds: an assert list of equalities is decided.        *)
THEOREM EqualityContainedHolds ==
  ASSUME NEW CONSTANT Value, PythonValues(Value),
         Body \subseteq Value, Args \subseteq Value
  PROVE  Evaluation => []EqualityContained
<1>1. EvaluationInv => EqualityContained
  <2> SUFFICES ASSUME EvaluationInv, \A i \in DOMAIN expressions : IsEquality(expressions[i])
               PROVE  outcome[1] # "escaped"
    BY DEF EqualityContained
  <2> DEFINE result == [i \in DOMAIN expressions |-> Evaluate(expressions[i], context)]
             violated == {i \in DOMAIN expressions : ~ Holds(result[i])}
             first == Min(violated)
  <2>1. ASSUME NEW i \in DOMAIN expressions
        PROVE  IsRaise(result[i]) => Caught(result[i])
    <3>1. PICK n \in Node : n = expressions[i] BY ExpressionsAreTrees
    <3>2. EvalNode(n, context) \in {Bool(TRUE), Bool(FALSE), Raise("EvaluationError")}
      BY <3>1, ContextOfValues, EqualityValue
    <3>3. result[i] \in {Bool(TRUE), Bool(FALSE), Raise("EvaluationError"),
                         Raise("UnsafeExpressionError")}
      BY <3>1, <3>2 DEF Evaluate
    <3> HIDE DEF result
    <3>4. /\ ~ IsRaise(Bool(TRUE)) /\ ~ IsRaise(Bool(FALSE))
          /\ Caught(Raise("EvaluationError")) /\ Caught(Raise("UnsafeExpressionError"))
      BY DEF Caught, Raise, IsRaise, Bool
    <3> QED BY <3>3, <3>4
  <2>2. ASSUME violated # {} PROVE first \in DOMAIN expressions
    <3>1. DOMAIN expressions \subseteq Nat
      BY AssertionsAssumption DEF EvaluationInv
    <3> HIDE DEF result
    <3>2. violated \in SUBSET Nat /\ violated \subseteq DOMAIN expressions BY <3>1
    <3> HIDE DEF violated
    <3> QED BY <2>2, <3>2, MinIsMember
  <2>3. EvaluatePostcondition(expressions, context) =
          IF violated = {} THEN Passed
          ELSE IF IsRaise(result[first]) /\ ~ Caught(result[first])
               THEN Escaped(result[first][2])
               ELSE FailedAt(first)
    BY DEF EvaluatePostcondition
  <2> HIDE DEF result, violated, first
  <2>4. EvaluatePostcondition(expressions, context) \in {Passed, FailedAt(first)}
    BY <2>1, <2>2, <2>3
  <2> QED BY <2>4 DEF EvaluationInv, Passed, FailedAt, Pending
<1> QED BY <1>1, EvaluationInvHolds, PTL

(* A path that yields a value leads somewhere.                             *)
LEMMA PathLeads ==
  ASSUME NEW Value, PythonValues(Value), ContextIn(context, Value),
         NEW n \in Node, IsPath(n), ~ IsRaise(EvalNode(n, context))
  PROVE  LeadsSomewhere(n)
<1> DEFINE P == {m \in Node : IsPath(m) /\ ~ IsRaise(EvalNode(m, context)) => LeadsSomewhere(m)}
<1>0. IsRaise(Raise("EvaluationError")) BY DEF Raise, IsRaise
<1>1. ASSUME NEW m \in Node, Children(m) \subseteq P, IsPath(m), ~ IsRaise(EvalNode(m, context))
      PROVE  LeadsSomewhere(m)
  <2>1. CASE m[1] = "Name"
    <3>1. EvalNode(m, context) = EvalName(m[2], context) BY <2>1, EvalLeaf
    <3>2. m[2] \notin {"None", "True", "False"} BY <2>1, ForestAssumption
    <3>3. m[2] \in DOMAIN context BY <1>0, <1>1, <3>1, <3>2 DEF EvalName
    <3>4. LeadsStep(m, LeadsSomewhere) BY <2>1, <3>3 DEF LeadsStep
    <3> QED BY <3>4, LeadsSomewhereIs
  <2>2. ASSUME m[1] \in {"Attribute", "Subscript"}
        PROVE  /\ ~ IsRaise(EvalNode(m[2], context)) => LeadsSomewhere(m[2])
               /\ Found(EvalNode(m[2], context), Value)
               /\ Part(m[2], context) = EvalNode(m[2], context)
    <3>1. /\ m[2] \in Node /\ m[2] \in Children(m) /\ IsPath(m[2])
          /\ Part(m[2], context) = EvalNode(m[2], context)
      BY <1>1, <2>2, PathParts
    <3>2. m[2] \in P BY <1>1, <3>1
    <3>3. PICK p \in Node : p = m[2] BY <3>1
    <3>4. Found(EvalNode(p, context), Value) BY <3>1, <3>3, PathFound
    <3> QED BY <3>1, <3>2, <3>3, <3>4
  <2>3. CASE m[1] = "Attribute"
    <3>1. PICK v : v = EvalNode(m[2], context) OBVIOUS
    <3>2. EvalNode(m, context) = IF IsRaise(v) THEN v ELSE EvalAttribute(v, m[3])
      BY <2>2, <2>3, <3>1, EvalAttributeNode DEF Then
    <3>3. ~ IsRaise(v) /\ ~ IsRaise(EvalAttribute(v, m[3])) BY <1>1, <3>2
    <3>4. v[1] # "none" /\ (v[1] = "dict" => Str(m[3]) \in DOMAIN v[2])
      BY <1>0, <3>3 DEF EvalAttribute
    <3>5. v # None BY <3>4 DEF None
    <3>6. LeadsStep(m, LeadsSomewhere)
      BY <2>2, <2>3, <3>1, <3>3, <3>4, <3>5 DEF LeadsStep
    <3> QED BY <3>6, LeadsSomewhereIs
  <2>4. CASE m[1] = "Subscript"
    <3>1. PICK v, w : v = EvalNode(m[2], context) /\ w = m[3][2] OBVIOUS
    <3>2. w \in Value /\ Part(m[3], context) = w BY <1>1, <2>4, <3>1, PathParts
    <3>3. EvalNode(m, context) =
            IF IsRaise(v) THEN v ELSE IF IsRaise(w) THEN w ELSE EvalSubscript(v, w)
      BY <2>2, <2>4, <3>1, <3>2, EvalSubscriptNode DEF Then
    <3>4. ~ IsRaise(v) /\ ~ IsRaise(EvalSubscript(v, w))
      <4>1. ~ IsRaise(w) BY <3>2 DEF PythonValues, ValuesOfPython
      <4> QED BY <1>1, <3>3, <4>1
    <3>5. v \in Value BY <1>0, <2>2, <2>4, <3>1, <3>4 DEF Found
    <3>6. ~ IsRaise(ItemOf(v, w)) BY <1>0, <3>4 DEF EvalSubscript
    <3>7. v # None /\ (v[1] = "dict" => DictKey(w) \in DOMAIN v[2])
      BY <3>2, <3>5, <3>6 DEF PythonValues, OperatorsOfPython
    <3>8. LeadsStep(m, LeadsSomewhere)
      BY <2>2, <2>4, <3>1, <3>4, <3>7 DEF LeadsStep
    <3> QED BY <3>8, LeadsSomewhereIs
  <2> QED BY <1>1, <2>1, <2>3, <2>4, PathParts
<1>2. \A m \in Node : Children(m) \subseteq P => m \in P BY <1>1
<1> HIDE DEF P
<1>3. n \in P BY <1>2, TreeInduction
<1> QED BY <1>3 DEF P

(* The operands of an equality that is not an exception lead somewhere.    *)
LEMMA EqualityLeads ==
  ASSUME NEW Value, PythonValues(Value), ContextIn(context, Value),
         NEW m \in Node, IsEquality(m), ~ IsRaise(EvalNode(m, context))
  PROVE  LeadsSomewhere(m[2]) /\ LeadsSomewhere(m[4][1])
<1>1. /\ m[2] \in Node /\ m[4][1] \in Node
      /\ ~ IsRaise(EvalNode(m[2], context)) /\ ~ IsRaise(EvalNode(m[4][1], context))
  <2>1. IsRaise(Raise("EvaluationError")) BY DEF Raise, IsRaise
  <2>2. PICK c : c = context OBVIOUS
  <2>3. ContextIn(c, Value) BY <2>2
  <2>4. /\ m[2] \in Node /\ m[4][1] \in Node
        /\ EvalNode(m, c) = Raise("EvaluationError")
           \/ (~ IsRaise(EvalNode(m[2], c)) /\ ~ IsRaise(EvalNode(m[4][1], c)))
    BY <2>3, EqualityValue
  <2> QED BY <2>1, <2>2, <2>4
<1>2. IsPath(m[2]) /\ (IsPath(m[4][1]) \/ m[4][1][1] = "Constant")
  BY DEF IsEquality, IsOperand
<1>3. PICK a \in Node, b \in Node : a = m[2] /\ b = m[4][1] BY <1>1
<1>4. LeadsSomewhere(a) BY <1>1, <1>2, <1>3, PathLeads
<1>5. LeadsSomewhere(b)
  <2>1. CASE IsPath(b) BY <1>1, <1>3, <2>1, PathLeads
  <2>2. CASE b[1] = "Constant"
    <3>1. LeadsStep(b, LeadsSomewhere) BY <2>2 DEF LeadsStep
    <3> QED BY <3>1, LeadsSomewhereIs
  <2> QED BY <1>2, <1>3, <2>1, <2>2
<1> QED BY <1>3, <1>4, <1>5

(* MissingEvidenceFailsHolds: absence of evidence is never passed.         *)
THEOREM MissingEvidenceFailsHolds ==
  ASSUME NEW CONSTANT Value, PythonValues(Value),
         Body \subseteq Value, Args \subseteq Value
  PROVE  Evaluation => []MissingEvidenceFails
<1>1. EvaluationInv => MissingEvidenceFails
  <2> SUFFICES ASSUME EvaluationInv, outcome = Passed,
                      NEW i \in DOMAIN expressions, IsEquality(expressions[i])
               PROVE  /\ LeadsSomewhere(expressions[i][2])
                      /\ LeadsSomewhere(expressions[i][4][1])
    BY DEF MissingEvidenceFails
  <2> DEFINE result == [j \in DOMAIN expressions |-> Evaluate(expressions[j], context)]
             violated == {j \in DOMAIN expressions : ~ Holds(result[j])}
             first == Min(violated)
  <2>1. EvaluatePostcondition(expressions, context) = Passed
    BY DEF EvaluationInv, Passed, Pending
  <2>2. EvaluatePostcondition(expressions, context) =
          IF violated = {} THEN Passed
          ELSE IF IsRaise(result[first]) /\ ~ Caught(result[first])
               THEN Escaped(result[first][2])
               ELSE FailedAt(first)
    BY DEF EvaluatePostcondition
  <2>3. Holds(result[i])
    <3> HIDE DEF result, first
    <3>1. violated = {}
      <4> HIDE DEF violated
      <4> QED BY <2>1, <2>2 DEF Passed, Escaped, FailedAt
    <3> QED BY <3>1
  <2>4. PICK n \in Node : n = expressions[i] BY ExpressionsAreTrees
  <2>5. ~ IsRaise(EvalNode(n, context))
    BY <2>3, <2>4 DEF Evaluate, Holds, Raise, IsRaise
  <2> HIDE DEF result, violated, first
  <2> QED BY <2>4, <2>5, ContextOfValues, EqualityLeads
<1> QED BY <1>1, EvaluationInvHolds, PTL

-----------------------------------------------------------------------------
(* An assertion that takes something from what was read or given: its tree *)
(* is refused, or an equality whose left side looks a name up in them, as  *)
(* the shipped contracts' assertions do.                                   *)
AsksForEvidence(n) ==
  \/ ~ CheckAstSafety(n)
  \/ n \in Node /\ IsEquality(n) /\ n[2][1] # "Name"

(* The assertions of a document that is a contract are a list of such.     *)
RequiresEvidence(doc) ==
  LET post == FieldOf(doc, "postcondition")
      texts == FieldOf(post, IF "assert" \in FieldsOf(post) THEN "assert" ELSE "assert_")[2]
  IN /\ IsList(texts)
     /\ \A i \in DOMAIN texts : AsksForEvidence(NodeOf[texts[i][2]])

(* Nothing has been read, and nothing was given.                           *)
Nothing == ContextOf(Object(<<>>), Object(<<>>))

(* Its names stand for the empty dictionary.                               *)
LEMMA NothingIn ==
  ASSUME NEW Value, PythonValues(Value)
  PROVE  /\ ContextIn(Nothing, Value)
         /\ \A id \in DOMAIN Nothing : Nothing[id] = Object(<<>>)
<1>1. Object(<<>>) \in Value BY DEF PythonValues, ValuesOfPython
<1> QED BY <1>1 DEF Nothing, ContextOf, ContextIn

(* NothingFound: a path into nothing leads nowhere.                        *)
LEMMA NothingFound ==
  ASSUME NEW Value, PythonValues(Value), NEW n \in Node, IsPath(n), n[1] # "Name"
  PROVE  IsRaise(EvalNode(n, Nothing))
<1> DEFINE P == {m \in Node : IsPath(m) =>
                   \/ IsRaise(EvalNode(m, Nothing))
                   \/ m[1] = "Name" /\ EvalNode(m, Nothing) = Object(<<>>)}
<1>0. IsRaise(Raise("EvaluationError")) BY DEF Raise, IsRaise
<1>1. Object(<<>>)[1] = "dict" /\ DOMAIN Object(<<>>)[2] = {} BY DEF Object, Dict
<1>2. Object(<<>>) \in Value BY DEF PythonValues, ValuesOfPython
<1>3. ASSUME NEW m \in Node, Children(m) \subseteq P, IsPath(m)
      PROVE  \/ IsRaise(EvalNode(m, Nothing))
             \/ m[1] = "Name" /\ EvalNode(m, Nothing) = Object(<<>>)
  <2>1. CASE m[1] = "Name"
    <3>1. EvalNode(m, Nothing) = EvalName(m[2], Nothing) BY <2>1, EvalLeaf
    <3>2. m[2] \notin {"None", "True", "False"} BY <2>1, ForestAssumption
    <3>3. m[2] \in DOMAIN Nothing => Nothing[m[2]] = Object(<<>>) BY NothingIn
    <3> QED BY <1>0, <2>1, <3>1, <3>2, <3>3 DEF EvalName
  <2>2. ASSUME m[1] \in {"Attribute", "Subscript"}
        PROVE  /\ IsRaise(EvalNode(m[2], Nothing)) \/ EvalNode(m[2], Nothing) = Object(<<>>)
               /\ Part(m[2], Nothing) = EvalNode(m[2], Nothing)
    <3>1. m[2] \in Children(m) /\ IsPath(m[2]) /\ Part(m[2], Nothing) = EvalNode(m[2], Nothing)
      BY <1>3, <2>2, PathParts
    <3>2. m[2] \in P BY <1>3, <3>1
    <3> QED BY <3>1, <3>2
  <2>3. CASE m[1] = "Attribute"
    <3>1. PICK v : v = EvalNode(m[2], Nothing) OBVIOUS
    <3>2. EvalNode(m, Nothing) = IF IsRaise(v) THEN v ELSE EvalAttribute(v, m[3])
      BY <2>2, <2>3, <3>1, EvalAttributeNode DEF Then
    <3>3. IsRaise(v) \/ v = Object(<<>>) BY <2>2, <2>3, <3>1
    <3>4. ASSUME v = Object(<<>>) PROVE IsRaise(EvalAttribute(v, m[3]))
      <4>1. v[1] = "dict" /\ DOMAIN v[2] = {} BY <1>1, <3>4
      <4> QED BY <1>0, <4>1 DEF EvalAttribute
    <3> QED BY <3>2, <3>3, <3>4
  <2>4. CASE m[1] = "Subscript"
    <3>1. PICK v, w : v = EvalNode(m[2], Nothing) /\ w = m[3][2] OBVIOUS
    <3>2. w \in Value /\ Part(m[3], Nothing) = w BY <1>3, <2>4, <3>1, PathParts
    <3>3. EvalNode(m, Nothing) =
            IF IsRaise(v) THEN v ELSE IF IsRaise(w) THEN w ELSE EvalSubscript(v, w)
      BY <2>2, <2>4, <3>1, <3>2, EvalSubscriptNode DEF Then
    <3>4. IsRaise(v) \/ v = Object(<<>>) BY <2>2, <2>4, <3>1
    <3>5. ASSUME v = Object(<<>>) PROVE IsRaise(EvalSubscript(v, w))
      <4>1. v \in Value /\ v[1] = "dict" /\ DictKey(w) \notin DOMAIN v[2]
        BY <1>1, <1>2, <3>5
      <4>2. IsRaise(ItemOf(v, w))
        BY <3>2, <4>1 DEF PythonValues, OperatorsOfPython
      <4> QED BY <1>0, <4>2 DEF EvalSubscript
    <3> QED BY <3>3, <3>4, <3>5
  <2> QED BY <1>3, <2>1, <2>3, <2>4, PathParts
<1>4. \A m \in Node : Children(m) \subseteq P => m \in P BY <1>3
<1> HIDE DEF P
<1>5. n \in P BY <1>4, TreeInduction
<1> QED BY <1>5 DEF P

(* EvidenceIsMissed: an assertion that asks for evidence does not hold     *)
(* where there is none.                                                    *)
LEMMA EvidenceIsMissed ==
  ASSUME NEW Value, PythonValues(Value), NEW n, AsksForEvidence(n)
  PROVE  ~ Holds(Evaluate(n, Nothing))
<1>1. CASE ~ CheckAstSafety(n)
  BY <1>1 DEF Evaluate, Holds, Raise, IsRaise
<1>2. CASE n \in Node /\ IsEquality(n) /\ n[2][1] # "Name"
  <2>1. PICK c : c = Nothing OBVIOUS
  <2>2. ContextIn(c, Value) BY <2>1, NothingIn
  <2>3. n[2] \in Node
        /\ (EvalNode(n, c) = Raise("EvaluationError") \/ ~ IsRaise(EvalNode(n[2], c)))
    BY <1>2, <2>2, EqualityValue
  <2>4. IsPath(n[2]) BY <1>2 DEF IsEquality
  <2>5. IsRaise(EvalNode(n[2], Nothing))
    <3>1. PICK p \in Node : p = n[2] BY <2>3
    <3> QED BY <1>2, <2>4, <3>1, NothingFound
  <2>6. EvalNode(n, Nothing) = Raise("EvaluationError") BY <2>1, <2>3, <2>5
  <2> QED BY <2>6 DEF Evaluate, Holds, Raise, IsRaise
<1> QED BY <1>1, <1>2 DEF AsksForEvidence

(* ContractsServedInv: what is served, and what a load has read so far, is *)
(* among the documents and fits the schema.                                *)
Loadable(contracts) ==
  \A n \in DOMAIN contracts : contracts[n] \in Document /\ ActionContract(contracts[n])

ContractsServedInv ==
  /\ directory \in [File -> Document \cup {NoFile}]
  /\ loading = [p \in Process |-> loading[p]]
  /\ \A p \in Process : IsLoad(loading[p]) /\ Loadable(loading[p].loaded)
  /\ Loadable(Served)

(* No contracts are loaded at first.                                       *)
LEMMA NothingLoadable == Loadable(<<>>) BY NothingCounted DEF Loadable

(* A load in the lifespan or a request begins or fails.                    *)
LEMMA LoadableLoads ==
  ASSUME ContractsServedInv, NEW p \in Process, NEW l, IsLoad(l), Loadable(l.loaded),
         loading' = [loading EXCEPT ![p] = l], UNCHANGED directory,
         Loadable(registry'.contracts)
  PROVE  ContractsServedInv'
<1>1. /\ loading' = [q \in Process |-> loading'[q]]
      /\ \A q \in Process : loading'[q] = IF q = p THEN l ELSE loading[q]
  BY DEF ContractsServedInv
<1>2. \A q \in Process : IsLoad(loading'[q]) /\ Loadable(loading'[q].loaded)
  BY <1>1 DEF ContractsServedInv
<1>3. Loadable(registry'.contracts) => Loadable(Served)'
  BY DEF Served, Loadable
<1>4. \A q \in Process : (IsLoad(loading[q]) /\ Loadable(loading[q].loaded))'
  BY <1>2 DEF IsLoad, Loadable
<1> QED BY <1>1, <1>3, <1>4 DEF ContractsServedInv

(* Every step keeps ContractsServedInv.                                    *)
LEMMA ContractsServedNext ==
  ContractsServedInv /\ [Next]_vars => ContractsServedInv'
<1> SUFFICES ASSUME ContractsServedInv, [Next]_vars PROVE ContractsServedInv' OBVIOUS
<1>0. Loadable(Served) /\ Served = registry.contracts
  BY DEF ContractsServedInv, Served
<1>1. /\ IsLoad(NewLoad) /\ Loadable(NewLoad.loaded)
      /\ IsLoad(NotLoading) /\ Loadable(NotLoading.loaded)
  BY LoadBegins, IdleLoad, NothingLoadable DEF NewLoad, NotLoading
<1>2. ASSUME NEW p \in Process, Fail(p), UNCHANGED directory PROVE ContractsServedInv'
  <2>1. Loadable(registry'.contracts)
    BY <1>0, <1>2, NothingLoadable DEF Fail
  <2>2. loading' = [loading EXCEPT ![p] = NotLoading] BY <1>2 DEF Fail
  <2> QED BY <1>1, <1>2, <2>1, <2>2, LoadableLoads
<1>3. ASSUME NEW p \in Process, LoadContracts(p), UNCHANGED directory
      PROVE  ContractsServedInv'
  <2>1. CASE place = "directory"
    <3>1. loading' = [loading EXCEPT ![p] = NewLoad] /\ UNCHANGED registry
      BY <1>3, <2>1 DEF LoadContracts, Begin, NewLoad
    <3>2. Loadable(registry'.contracts) BY <1>0, <3>1
    <3> QED BY <1>1, <1>3, <3>1, <3>2, LoadableLoads
  <2>2. CASE place # "directory" BY <1>2, <1>3, <2>2 DEF LoadContracts
  <2> QED BY <2>1, <2>2
<1>4. CASE Start
  <2>1. CASE lifespan BY <1>3, <1>4, <2>1 DEF Start, Process
  <2>2. CASE ~ lifespan
    BY <1>4, <2>2 DEF Start, ContractsServedInv, IsLoad, Loadable, Served
  <2> QED BY <2>1, <2>2
<1>5. CASE Stop
  <2>1. /\ loading' = [p \in Process |-> NotLoading] /\ registry' = NoRegistry
        /\ UNCHANGED directory
    BY <1>5 DEF Stop, Process
  <2>2. Loadable(NoRegistry.contracts) BY NothingLoadable DEF NoRegistry
  <2> QED BY <1>1, <2>1, <2>2 DEF ContractsServedInv, IsLoad, Loadable, Served
<1>6. ASSUME NEW w \in Worker, GetRegistry(w) PROVE ContractsServedInv'
  BY <1>3, <1>6 DEF GetRegistry, Process
<1>7. ASSUME NEW p \in Process, ReadFile(p) PROVE ContractsServedInv'
  <2>1. PICK file \in File :
          /\ IF Refused(loading[p].loaded, directory[file]) THEN Fail(p)
             ELSE /\ loading' = [loading EXCEPT ![p] = AfterReading(@, file, directory[file])]
                  /\ UNCHANGED <<phase, registry>>
          /\ UNCHANGED directory
    BY <1>7 DEF ReadFile
  <2>2. CASE Refused(loading[p].loaded, directory[file]) BY <1>2, <2>1, <2>2
  <2>3. CASE ~ Refused(loading[p].loaded, directory[file])
    <3>1. PICK l, doc : l = loading[p] /\ doc = directory[file] OBVIOUS
    <3>2. IsLoad(l) /\ Loadable(l.loaded) BY <3>1 DEF ContractsServedInv
    <3>3. doc \in Document /\ ActionContract(doc)
      BY <2>3, <3>1 DEF Refused, ContractsServedInv
    <3>4. IsLoad(AfterReading(l, file, doc))
          /\ AfterReading(l, file, doc).loaded = With(l.loaded, doc)
      BY <3>2, ReadingKeepsShape
    <3>5. Loadable(With(l.loaded, doc)) BY <3>2, <3>3 DEF With, Loadable
    <3>6. loading' = [loading EXCEPT ![p] = AfterReading(l, file, doc)]
      BY <2>1, <2>3, <3>1
    <3>7. Loadable(registry'.contracts) BY <1>0, <2>1, <2>3
    <3>8. PICK n : n = AfterReading(l, file, doc) OBVIOUS
    <3>9. IsLoad(n) /\ Loadable(n.loaded) /\ loading' = [loading EXCEPT ![p] = n]
      BY <3>4, <3>5, <3>6, <3>8
    <3> QED BY <2>1, <3>7, <3>9, LoadableLoads
  <2> QED BY <2>2, <2>3
<1>8. ASSUME NEW p \in Process, Finish(p) PROVE ContractsServedInv'
  <2>1. /\ loading' = [loading EXCEPT ![p] = NotLoading] /\ UNCHANGED directory
        /\ registry'.contracts = loading[p].loaded
    BY <1>8 DEF Finish
  <2>2. Loadable(registry'.contracts) BY <2>1 DEF ContractsServedInv
  <2> QED BY <1>1, <2>1, <2>2, LoadableLoads
<1>9. ASSUME NEW f \in File, NEW doc \in Document \cup {NoFile}, Deploy(f, doc)
      PROVE  ContractsServedInv'
  <2>1. directory' = [directory EXCEPT ![f] = doc] /\ UNCHANGED <<loading, registry>>
    BY <1>9 DEF Deploy
  <2>2. directory' \in [File -> Document \cup {NoFile}] BY <2>1 DEF ContractsServedInv
  <2> QED BY <2>1, <2>2 DEF ContractsServedInv, IsLoad, Loadable, Served
<1>10. CASE UNCHANGED vars
  BY <1>10 DEF vars, ContractsServedInv, IsLoad, Loadable, Served
<1> QED BY <1>4, <1>5, <1>6, <1>7, <1>8, <1>9, <1>10 DEF Next, Process

(* ContractsServed: no file that does not fit the schema is ever served.   *)
THEOREM ContractsServed == Spec => []ContractsServedInv
<1>1. Init => ContractsServedInv
  <2> SUFFICES ASSUME Init PROVE ContractsServedInv OBVIOUS
  <2>1. /\ directory \in [File -> Document \cup {NoFile}] /\ registry = NoRegistry
        /\ loading = [p \in Process |-> NotLoading]
    BY DEF Init, Process
  <2>2. IsLoad(NotLoading) /\ Loadable(NotLoading.loaded) /\ Loadable(NoRegistry.contracts)
    BY IdleLoad, NothingLoadable DEF NotLoading, NoRegistry
  <2> QED BY <2>1, <2>2 DEF ContractsServedInv, Served
<1> QED BY <1>1, ContractsServedNext, PTL DEF Spec

(* An assert list is not empty in a contract the schema accepts.           *)
LEMMA SomeAssertion ==
  ASSUME NEW doc, ActionContract(doc), RequiresEvidence(doc)
  PROVE  /\ 1 \in DOMAIN AssertionsIn(doc)
         /\ DOMAIN AssertionsIn(doc) \in SUBSET Nat
         /\ \A i \in DOMAIN AssertionsIn(doc) : AsksForEvidence(AssertionsIn(doc)[i])
<1> DEFINE post == FieldOf(doc, "postcondition")
           f == IF "assert" \in FieldsOf(post) THEN "assert" ELSE "assert_"
           texts == FieldOf(post, f)[2]
<1>1. IsList(texts) /\ \A i \in DOMAIN texts : AsksForEvidence(NodeOf[texts[i][2]])
  BY DEF RequiresEvidence
<1>2. PostconditionConfig(post) BY DEF ActionContract
<1>3. texts # <<>>
  <2> HIDE DEF post
  <2>1. f \in FieldsOf(post) \cap {"assert", "assert_"}
    BY <1>2 DEF PostconditionConfig
  <2>2. AssertionList(FieldOf(post, f)) BY <1>2, <2>1 DEF PostconditionConfig
  <2> QED BY <2>2 DEF AssertionList
<1>4. AssertionsIn(doc) = [i \in DOMAIN texts |-> NodeOf[texts[i][2]]]
  BY DEF AssertionsIn
<1> HIDE DEF texts
<1>5. 1 \in DOMAIN texts /\ DOMAIN texts \in SUBSET Nat
  <2>1. \A S : \A s \in Seq(S) : DOMAIN s \in SUBSET Nat /\ (s # <<>> => 1 \in DOMAIN s)
    OBVIOUS
  <2> QED BY <1>1, <1>3, <2>1 DEF IsList
<1> QED BY <1>1, <1>4, <1>5

(* VerdictsNeedEvidenceHolds: no contract that is served verifies an order *)
(* of which nothing could be read, provided that its assertions ask for    *)
(* something, as those of the shipped contracts do.                        *)
THEOREM VerdictsNeedEvidenceHolds ==
  ASSUME NEW CONSTANT Value, PythonValues(Value),
         \A doc \in Document : ActionContract(doc) => RequiresEvidence(doc)
  PROVE  Spec => []VerdictsNeedEvidence
<1>1. ContractsServedInv => VerdictsNeedEvidence
  <2> SUFFICES ASSUME ContractsServedInv, NEW n \in DOMAIN Served
               PROVE  EvaluatePostcondition(AssertionsIn(Served[n]), Nothing) # Passed
    BY DEF VerdictsNeedEvidence, Nothing
  <2>1. PICK doc \in Document : doc = Served[n] /\ ActionContract(doc)
    BY DEF ContractsServedInv, Loadable
  <2>2. PICK asserts : asserts = AssertionsIn(doc) OBVIOUS
  <2>3. /\ 1 \in DOMAIN asserts
        /\ \A i \in DOMAIN asserts : AsksForEvidence(asserts[i])
    BY <2>1, <2>2, SomeAssertion
  <2> DEFINE result == [i \in DOMAIN asserts |-> Evaluate(asserts[i], Nothing)]
             violated == {i \in DOMAIN asserts : ~ Holds(result[i])}
             first == Min(violated)
  <2>4. EvaluatePostcondition(asserts, Nothing) =
          IF violated = {} THEN Passed
          ELSE IF IsRaise(result[first]) /\ ~ Caught(result[first])
               THEN Escaped(result[first][2])
               ELSE FailedAt(first)
    BY DEF EvaluatePostcondition
  <2>5. ~ Holds(Evaluate(asserts[1], Nothing)) BY <2>3, EvidenceIsMissed
  <2>6. violated # {} BY <2>3, <2>5
  <2> HIDE DEF result, violated, first
  <2>7. EvaluatePostcondition(asserts, Nothing) # Passed
    BY <2>4, <2>6 DEF Passed, Escaped, FailedAt
  <2> QED BY <2>1, <2>2, <2>7
<1> QED BY <1>1, ContractsServed, PTL

=============================================================================
